---- MODULE Spec2Model ----
(***************************************************************************)
(* A model of the nekto-clone backend: the matchmaking queue and the       *)
(* /find, /cancel and /notifications endpoints (api/routes/match.py,       *)
(* app/core/matchmaking.py), the notification mailbox                      *)
(* (app/core/notification.py), the WebSocket connection protocol, the      *)
(* message loop and the chat history (api/routes/chat.py), blocking,       *)
(* unblocking and report filing with its implied block                     *)
(* (api/routes/match.py, api/routes/reports.py), passwords, tokens and     *)
(* the auth endpoints (app/core/security.py, api/routes/auth.py,           *)
(* app/deps.py), preference matching and the rate limit                    *)
(* (app/core/matchmaking.py).                                              *)
(*                                                                         *)
(* The server is one asyncio event loop: a handler runs without            *)
(* interruption until it awaits real I/O (a database statement, a socket   *)
(* accept), and there any other handler may run.  Every action below is    *)
(* one such uninterrupted stretch of one handler.  In the matchmaking      *)
(* specification the queue is the in-process fallback (redis_client =      *)
(* None), whose operations never suspend; SpecQueue has the queue on both  *)
(* backends, and SpecChat the message loop with each send of a broadcast.  *)
(***************************************************************************)
EXTENDS Integers, Sequences, FiniteSets, TLC

\* ------------------------------------------------------------------ bounds
NumUsers == 3
MaxTime == 3

Users == 1..NumUsers

\* Python's None (an absent id, an unset column, a missing dict key).
None == 0

\* ------------------------------------------------------------- user records
\* users.gender and users.age of the registered users ("None": the column is
\* unset; an age of None is 0, falsy as in Python).
UserGender(u) ==
    CASE u % 4 = 1 -> "male"
      [] u % 4 = 2 -> "female"
      [] u % 4 = 3 -> "None"
      [] OTHER -> "female"

UserAge(u) ==
    CASE u % 4 = 1 -> 25
      [] u % 4 = 2 -> 17
      [] u % 4 = 3 -> None
      [] OTHER -> 30

\* MatchRequest.preferences: a dict; a key that is absent is "None" / None here.
NoPrefs == [gender_preference |-> "None", age_min |-> None, age_max |-> None]

PrefSet ==
    { NoPrefs,
      [gender_preference |-> "female", age_min |-> None, age_max |-> 20] }

\* The preferences a user's /find requests may carry.
RequestPrefs(u) == IF u % 2 = 1 THEN PrefSet ELSE {NoPrefs}

\* `if preferences:` -- a dict is truthy when it has a key.
PrefsTruthy(p) ==
    p.gender_preference # "None" \/ p.age_min # None \/ p.age_max # None

VARIABLES
    \* --- matchmaking (app/core/matchmaking.py, api/routes/match.py)
    queue,               \* in_memory_cache["match_queue"], in dict order
    now,                 \* the clock datetime.utcnow() reads, in ticks
    call,                \* the /find request in flight of each user
    resp,                \* the HTTP response the last step sent, if it sent one
    \* --- notification mailbox (app/core/notification.py)
    user_notifications,  \* NotificationManager.user_notifications
    posted,              \* history: the add_notification calls, in call order
    delivered,           \* history: the get_notifications calls and their results
    \* --- persistence (app/models)
    chat_sessions,       \* table chat_sessions, in insertion order (id = index)
    blocked_users,       \* table blocked_users: number of rows per (blocker, blocked)
    reports,             \* table reports: number of rows per (reporter, reported)
    blocked_users_count, \* users.blocked_users_count
    is_banned,           \* users.is_banned
    reports_count,       \* users.reports_count
    \* --- the HTTP requests in flight or last made (reports.py, match.py, chat.py,
    \*     auth.py); the inputs of a direct call
    req,
    \* --- WebSocket endpoint and ConnectionManager (api/routes/chat.py)
    ws,                  \* the connection attempts, one per socket
    active_connections,  \* ConnectionManager.active_connections: user -> socket
    session_connections, \* ConnectionManager.session_connections: session -> users
    \* --- the rest
    messages,            \* table messages: the set of rows
    rate_limits,         \* the rate-limit counters, in Redis or in_memory_cache
    redis,               \* redis_client (set or None) and the sorted set
                         \* "match_queue" of the Redis server
    sent,                \* the frames the last step sent over WebSockets
    ret                  \* the response to the last auth request; the results of
                         \* the direct calls of a core function

matchVars == <<queue, now, call, resp>>
notifVars == <<user_notifications, posted, delivered>>
dbVars ==
    <<chat_sessions, blocked_users, reports, blocked_users_count, is_banned,
      reports_count>>
wsVars == <<ws, active_connections, session_connections>>
extVars == <<messages, rate_limits, redis, sent, ret>>
vars == <<matchVars, notifVars, dbVars, req, wsVars, extVars>>

\* No client (redis_client = None) and no key on the server.
NoRedis == [client |-> FALSE, match_queue |-> {}]

\* ------------------------------------------------------ sequence helpers
RECURSIVE SeqSum(_)
SeqSum(s) == IF s = <<>> THEN 0 ELSE Head(s) + SeqSum(Tail(s))

\* ---------------------------------------------------------- the queue
\* One queue entry: user_data of add_to_queue.
Entry(u, t, p) == [user_id |-> u, joined_at |-> t, preferences |-> p]

QueueUsers(q) == { q[i].user_id : i \in DOMAIN q }

\* in_memory_cache[queue_key][user_id] = user_data: a new key goes last, an
\* existing key keeps its place and gets the new value.
add_to_queue(q, u, t, p) ==
    IF u \in QueueUsers(q)
    THEN [i \in DOMAIN q |-> IF q[i].user_id = u THEN Entry(u, t, p) ELSE q[i]]
    ELSE Append(q, Entry(u, t, p))

\* del in_memory_cache[queue_key][user_id], if the key is there.
remove_from_queue(q, u) == SelectSeq(q, LAMBDA e : e.user_id # u)

get_queue_position_one_based(q, u) ==
    IF u \in QueueUsers(q)
    THEN CHOOSE i \in DOMAIN q : q[i].user_id = u
    ELSE -1

\* enumerate(in_memory_cache[queue_key].keys()): the zero-based index, or -1.
get_queue_position(q, u) ==
    IF u \in QueueUsers(q)
    THEN (CHOOSE i \in DOMAIN q : q[i].user_id = u) - 1
    ELSE -1

\* Imported by api/routes/match.py from app.core.matchmaking, which does not
\* define it in this tree: the user has an entry in the queue.
is_user_in_queue(q, u) == u \in QueueUsers(q)

\* ------------------------------------------------------ the scan's filters
\* The rows is_blocked's SELECT returns for the pair.
BlockRows(b, u1, u2) == b[u1][u2] + b[u2][u1]

is_blocked_one_way(b, u1, u2) ==
    IF b[u1][u2] > 1 THEN "error" ELSE IF b[u1][u2] = 1 THEN "yes" ELSE "no"

\* result.scalar_one_or_none() is not None: no row is "no", one row "yes", and
\* with more rows scalar_one_or_none raises MultipleResultsFound ("error").
is_blocked(b, u1, u2) ==
    IF BlockRows(b, u1, u2) > 1 THEN "error"
    ELSE IF BlockRows(b, u1, u2) = 1 THEN "yes" ELSE "no"

\* A key of the preferences dict that is present with the value None (JSON
\* null), as distinct from an absent key (None here).
Null == -1

\* `"age_min" in preferences and user.age and user.age < preferences["age_min"]`
\* (bound_is_min) and its age_max twin: "skip" when the key is absent or the age
\* falsy, "error" when the comparison is with None (TypeError), else whether
\* the candidate is outside the bound.
age_check(age, bound, bound_is_min) ==
    IF bound = None \/ age = None THEN "skip"
    ELSE IF bound = Null THEN "error"
    ELSE IF bound_is_min /\ age < bound THEN "fail"
    ELSE IF ~bound_is_min /\ age > bound THEN "fail"
    ELSE "skip"

\* The body of check_preferences for a candidate row with this gender and age:
\* "pass" (True), "fail" (False) or "error" (it raises).
match_preferences(gender, age, p) ==
    IF p.gender_preference # "None" /\ gender # p.gender_preference THEN "fail"
    ELSE IF age_check(age, p.age_min, TRUE) # "skip"
    THEN age_check(age, p.age_min, TRUE)
    ELSE IF age_check(age, p.age_max, FALSE) # "skip"
    THEN age_check(age, p.age_max, FALSE)
    ELSE "pass"

\* check_preferences for the stored user u, with preferences whose keys are
\* absent or hold a value.
check_preferences(u, p) ==
    /\ (p.gender_preference # "None" => UserGender(u) = p.gender_preference)
    /\ ~(p.age_min # None /\ UserAge(u) # None /\ UserAge(u) < p.age_min)
    /\ ~(p.age_max # None /\ UserAge(u) # None /\ UserAge(u) > p.age_max)

\* ------------------------------------------------------ the mailbox
\* A match_found that names the session after the one just stored.
MatchFoundUnsaved(sid, u) ==
    [type |-> "match_found", session_id |-> sid + 1, match |-> u]

MatchFound(sid, u) == [type |-> "match_found", session_id |-> sid, match |-> u]

add_notification(m, u, n) == [m EXCEPT ![u] = Append(@, n)]

get_notifications_keep(m, u) == m

\* self.user_notifications.pop(user_id, []): the list is the call's result
\* (m[u]); this is the mailbox it leaves.
get_notifications(m, u) == [m EXCEPT ![u] = <<>>]

\* ------------------------------------------------------ /find
IdleCall ==
    [pc |-> "idle", prefs |-> NoPrefs, members |-> <<>>, idx |-> 0,
     my_joined_at |-> 0, cand |-> None, cand_joined_at |-> 0, sid |-> None]

\* An HTTP response: who it goes to and the fields of its body.
Response(u, st, sid, m, pos) ==
    [to |-> u, status |-> st, session_id |-> sid, match |-> m, position |-> pos]
NoResp == Response(None, "none", None, None, -1)
Matched(u, sid, m) == Response(u, "matched", sid, m, -1)
QueuedAt(u, pos) == Response(u, "queued", None, None, pos)
Queued(u) == QueuedAt(u, -1)
ServerError(u) == Response(u, "error500", None, None, -1)

\* The first match_found event of a popped list (the loop of lines 42-50), 0 if none.
FirstMatchFound(ns) ==
    IF \E i \in DOMAIN ns : ns[i].type = "match_found"
    THEN CHOOSE i \in DOMAIN ns :
            /\ ns[i].type = "match_found"
            /\ \A j \in 1..(i - 1) : ns[j].type # "match_found"
    ELSE 0

NextCandidateSkipping(members, u, i) ==
    IF \E j \in (i + 2)..Len(members) : members[j].user_id # u
    THEN CHOOSE j \in (i + 2)..Len(members) :
            /\ members[j].user_id # u
            /\ \A k \in (i + 2)..(j - 1) : members[k].user_id = u
    ELSE 0

\* `for member in members`: the next index after i whose entry is not the
\* requester's own (`continue`), or 0 when the loop is exhausted.
NextCandidate(members, u, i) ==
    IF \E j \in (i + 1)..Len(members) : members[j].user_id # u
    THEN CHOOSE j \in (i + 1)..Len(members) :
            /\ members[j].user_id # u
            /\ \A k \in (i + 1)..(j - 1) : members[k].user_id = u
    ELSE 0

\* find_match continues its loop behind candidate i: it suspends in the next
\* candidate's is_blocked, or runs off the end and /find answers "queued".
ScanOn(u, i) ==
    LET j == NextCandidate(call[u].members, u, i) IN
    IF j = 0
    THEN /\ call' = [call EXCEPT ![u] = IdleCall]
         /\ resp' = Queued(u)
    ELSE /\ call' = [call EXCEPT ![u].pc = "is_blocked", ![u].idx = j]
         /\ resp' = NoResp

\* "Found a match!": both entries leave the queue and find_match returns; the
\* endpoint suspends in its SELECT of the matched user.
MatchWith(u, c) ==
    /\ queue' = remove_from_queue(remove_from_queue(queue, u), c.user_id)
    /\ call' = [call EXCEPT ![u].pc = "store_match", ![u].cand = c.user_id,
                             ![u].cand_joined_at = c.joined_at]
    /\ resp' = NoResp

FindPendingDequeue(u, ns) ==
    LET n == ns[FirstMatchFound(ns)] IN
    /\ resp' = Matched(u, n.session_id, n.match)
    /\ queue' = remove_from_queue(queue, u)
    /\ UNCHANGED <<now, call>>

\* Step 1 of the endpoint: the first pending match_found is the response.
FindPending(u, ns) ==
    LET n == ns[FirstMatchFound(ns)] IN
    /\ resp' = Matched(u, n.session_id, n.match)
    /\ UNCHANGED <<queue, now, call>>

\* Step 2 of the endpoint: a caller who is queued gets the position back.
FindAlreadyQueued(u) ==
    /\ resp' = QueuedAt(u, get_queue_position(queue, u))
    /\ UNCHANGED <<queue, now, call>>

\* members = list(in_memory_cache[queue_key].values()): of each entry, the
\* fields the scan reads (user_id) and the entry's identity (joined_at).
Snapshot(q) ==
    [i \in DOMAIN q |-> [user_id |-> q[i].user_id, joined_at |-> q[i].joined_at]]

\* Steps 3 and 4 of the endpoint up to find_match's first suspension.
FindEnqueue(u, p) ==
    /\ now < MaxTime
    /\ now' = now + 1
    /\ LET q == add_to_queue(queue, u, now + 1, p)
           j == NextCandidate(q, u, 0)
       IN /\ queue' = q
          /\ IF j = 0
             THEN /\ call' = [call EXCEPT ![u] = IdleCall]
                  /\ resp' = Queued(u)
             ELSE /\ call' = [call EXCEPT ![u] =
                        [IdleCall EXCEPT !.pc = "is_blocked", !.prefs = p,
                                         !.members = Snapshot(q), !.idx = j,
                                         !.my_joined_at = now + 1]]
                  /\ resp' = NoResp

\* POST /find, from the request to its first suspension (or its response).
FindStart(u, p) ==
    /\ call[u].pc = "idle"
    /\ LET ns == user_notifications[u] IN
       /\ user_notifications' = get_notifications(user_notifications, u)
       /\ UNCHANGED <<posted, delivered>>
       /\ IF FirstMatchFound(ns) # 0 THEN FindPending(u, ns)
          ELSE IF is_user_in_queue(queue, u) THEN FindAlreadyQueued(u)
          ELSE FindEnqueue(u, p)
    /\ UNCHANGED <<extVars, dbVars, req, wsVars>>

\* find_match resumes from `await is_blocked(user_id, candidate_id, session)`.
FindIsBlocked(u) ==
    /\ call[u].pc = "is_blocked"
    /\ LET c == call[u].members[call[u].idx]
           r == is_blocked(blocked_users, u, c.user_id)
       IN CASE r = "error" ->
                 /\ call' = [call EXCEPT ![u] = IdleCall]
                 /\ resp' = ServerError(u)
                 /\ queue' = queue
            [] r = "yes" ->
                 /\ ScanOn(u, call[u].idx)
                 /\ queue' = queue
            [] OTHER ->
                 IF PrefsTruthy(call[u].prefs)
                 THEN /\ call' = [call EXCEPT ![u].pc = "check_preferences"]
                      /\ resp' = NoResp
                      /\ queue' = queue
                 ELSE MatchWith(u, c)
    /\ UNCHANGED <<extVars, now, notifVars, dbVars, req, wsVars>>

\* find_match resumes from `await check_preferences(candidate_id, ...)`.
FindCheckPreferences(u) ==
    /\ call[u].pc = "check_preferences"
    /\ LET c == call[u].members[call[u].idx] IN
       IF check_preferences(c.user_id, call[u].prefs)
       THEN MatchWith(u, c)
       ELSE /\ ScanOn(u, call[u].idx)
            /\ queue' = queue
    /\ UNCHANGED <<extVars, now, notifVars, dbVars, req, wsVars>>

ActiveSession(u1, u2) == [user_id_1 |-> u1, user_id_2 |-> u2, status |-> "active"]

\* ChatSession(user_id_1, user_id_2, status="active"); session.add; commit.
store_match(cs, u1, u2) == Append(cs, ActiveSession(u1, u2))

\* The endpoint loads the matched user (users are never deleted, so the row is
\* there) and store_match commits the ChatSession; it suspends in refresh.
FindStoreMatch(u) ==
    /\ call[u].pc = "store_match"
    /\ chat_sessions' = store_match(chat_sessions, u, call[u].cand)
    /\ call' = [call EXCEPT ![u].pc = "notify", ![u].sid = Len(chat_sessions) + 1]
    /\ resp' = NoResp
    /\ UNCHANGED <<extVars, queue, now, notifVars, blocked_users, reports,
                   blocked_users_count, is_banned, reports_count, req, wsVars>>

\* After refresh: the callee's notification and the caller's response.
FindNotify(u) ==
    /\ call[u].pc = "notify"
    /\ user_notifications' =
          add_notification(user_notifications, call[u].cand,
                           MatchFound(call[u].sid, u))
    /\ resp' = Matched(u, call[u].sid, call[u].cand)
    /\ call' = [call EXCEPT ![u] = IdleCall]
    /\ UNCHANGED <<extVars, queue, now, posted, delivered, dbVars, req, wsVars>>

\* POST /cancel.
Cancel(u) ==
    /\ u \in QueueUsers(queue)
    /\ queue' = remove_from_queue(queue, u)
    /\ resp' = Response(u, "canceled", None, None, -1)
    /\ UNCHANGED <<extVars, now, call, notifVars, dbVars, req, wsVars>>

\* GET /notifications: returns and clears the caller's mailbox.
GetNotificationsEndpoint(u) ==
    /\ user_notifications[u] # <<>>
    /\ user_notifications' = get_notifications(user_notifications, u)
    /\ resp' = Response(u, "notifications", None, None, -1)
    /\ UNCHANGED <<extVars, queue, now, call, posted, delivered, dbVars, req, wsVars>>

\* ------------------------------------------------------ initial states
NoBlocks == [a \in Users |-> [b \in Users |-> 0]]

\* The block rows left by earlier /block and /reports/create requests.
BlockConfigs ==
    { NoBlocks,
      [NoBlocks EXCEPT ![1][2] = 1],
      [NoBlocks EXCEPT ![1][2] = 1, ![2][1] = 1],
      [a \in Users |-> [b \in Users |-> IF a < b THEN 1 ELSE 0]] }

\* users.blocked_users_count as /block and /reports/create leave it when run
\* one at a time: the number of the user's block rows.
RowCounts(b) == [u \in Users |-> SeqSum(b[u])]

InitCommon ==
    /\ queue = <<>>
    /\ now = 0
    /\ call = [u \in Users |-> IdleCall]
    /\ resp = NoResp
    /\ user_notifications = [u \in Users |-> <<>>]
    /\ posted = <<>>
    /\ delivered = <<>>
    /\ reports = NoBlocks
    /\ active_connections = [u \in Users |-> None]
    /\ session_connections = <<>>
    /\ messages = {}
    /\ rate_limits = <<>>
    /\ redis = NoRedis
    /\ sent = {}
    /\ ret = None

\* No report or block request and no socket.
InitQuiet ==
    /\ is_banned = [u \in Users |-> FALSE]
    /\ reports_count = [u \in Users |-> 0]
    /\ req = <<>>
    /\ ws = <<>>

Init ==
    /\ InitCommon
    /\ InitQuiet
    /\ chat_sessions = <<>>
    /\ blocked_users \in BlockConfigs
    /\ blocked_users_count = RowCounts(blocked_users)

Next ==
    \/ \E u \in Users : \E p \in RequestPrefs(u) : FindStart(u, p)
    \/ \E u \in Users : FindIsBlocked(u)
    \/ \E u \in Users : FindCheckPreferences(u)
    \/ \E u \in Users : FindStoreMatch(u)
    \/ \E u \in Users : FindNotify(u)
    \/ \E u \in Users : Cancel(u)
    \/ \E u \in Users : GetNotificationsEndpoint(u)

Spec == Init /\ [][Next]_vars

\* ====================================================== claims: matchmaking
InFlightMatch(u) == call[u].pc \in {"store_match", "notify"}

\* C1: find_match never returns a user who has a BlockedUser row with the
\* requester in either direction, and /find never stores a ChatSession that
\* pairs two such users.
C1_BlockedNeverPaired ==
    /\ \A u \in Users :
          InFlightMatch(u) => BlockRows(blocked_users, u, call[u].cand) = 0
    /\ \A i \in DOMAIN chat_sessions :
          BlockRows(blocked_users, chat_sessions[i].user_id_1,
                    chat_sessions[i].user_id_2) = 0

\* A scan that passed over a queued user blocked with the requester and
\* matched a later one.
C1_Witness ==
    \E u \in Users :
        /\ call[u].pc = "store_match"
        /\ \E j \in 1..(call[u].idx - 1) :
              /\ call[u].members[j].user_id # u
              /\ BlockRows(blocked_users, u, call[u].members[j].user_id) = 1

\* C2: a queue entry is consumed by at most one match: no entry is the
\* candidate of two requesters, and no entry is the candidate of one match and
\* the requester's own entry of another.
C2_EntryConsumedOnce ==
    \A u, v \in Users :
        (u # v /\ InFlightMatch(u) /\ InFlightMatch(v)) =>
            /\ ~(call[u].cand = call[v].cand
                   /\ call[u].cand_joined_at = call[v].cand_joined_at)
            /\ ~(call[u].cand = v
                   /\ call[u].cand_joined_at = call[v].my_joined_at)

\* C5: when A's /find has matched the queued B, then on return neither is in
\* the queue, the ChatSession (A, B, "active") of the call exists once, one
\* match_found with its id and A's profile was appended to B's mailbox and
\* none to A's, and A is answered "matched" with that id and B's profile.
C5_MatchedOnReturn ==
    [][\A a \in Users : FindNotify(a) =>
          LET b == call[a].cand
              sid == call[a].sid
          IN /\ a \notin QueueUsers(queue')
             /\ b \notin QueueUsers(queue')
             /\ chat_sessions'[sid] = ActiveSession(a, b)
             /\ user_notifications'[b] =
                    Append(user_notifications[b], MatchFound(sid, a))
             /\ user_notifications'[a] = user_notifications[a]
             /\ resp' = Matched(a, sid, b)]_vars

NoPending(u) == FirstMatchFound(user_notifications[u]) = 0

\* The entries of q, other than u's, that pass the block filter and the
\* preference filter of a request of u with preferences p.
Eligible(q, u, p) ==
    { i \in DOMAIN q :
        /\ q[i].user_id # u
        /\ is_blocked(blocked_users, u, q[i].user_id) = "no"
        /\ check_preferences(q[i].user_id, p) }

C7_PendingDelivered ==
    [][\A u \in Users : \A p \in RequestPrefs(u) :
          (FindStart(u, p) /\ ~NoPending(u)) =>
              LET n == user_notifications[u][FirstMatchFound(user_notifications[u])]
              IN /\ resp' = Matched(u, n.session_id, n.match)
                 /\ UNCHANGED <<queue, call, now, chat_sessions>>]_vars

\* The callee of a session was answered "matched" from the mailbox while
\* having an entry in the queue.
C7_Witness ==
    /\ resp.status = "matched"
    /\ resp.session_id \in DOMAIN chat_sessions
    /\ chat_sessions[resp.session_id].user_id_2 = resp.to
    /\ resp.to \in QueueUsers(queue)


\* C37: every notification that a /find call removes from the caller's
\* mailbox is returned in that call's response; none is discarded.
C37_PoppedAreReturned ==
    [][\A u \in Users : \A p \in RequestPrefs(u) :
          FindStart(u, p) =>
              \A i \in DOMAIN user_notifications[u] :
                  LET n == user_notifications[u][i]
                  IN \/ user_notifications'[u] = user_notifications[u]
                     \/ /\ resp'.to = u
                        /\ resp'.status = "matched"
                        /\ resp'.session_id = n.session_id
                        /\ resp'.match = n.match]_vars

EntryOf(q, u) == q[CHOOSE i \in DOMAIN q : q[i].user_id = u]

Scanning(u) == call[u].pc \in {"is_blocked", "check_preferences"}

\* User c has no entry in the queue, no request in flight, no ChatSession and
\* no match pending that names c: a user whom a scan holds in its snapshot and
\* who is in this state has left the queue by /cancel and has not come back.
Canceled(c) ==
    /\ c \notin QueueUsers(queue)
    /\ call[c].pc = "idle"
    /\ user_notifications[c] = <<>>
    /\ \A v \in Users : InFlightMatch(v) => call[v].cand # c
    /\ \A i \in DOMAIN chat_sessions :
          c \notin {chat_sessions[i].user_id_1, chat_sessions[i].user_id_2}

\* C36: once a /cancel of U has completed and U has not called /find again, no
\* find_match call returns U as its candidate (and so no ChatSession and no
\* match_found is made for U), also when the scan read the queue before the
\* cancel and resumes after it.
C36_CanceledNotMatched ==
    [][\A u \in Users :
          (Scanning(u) /\ call'[u].pc = "store_match")
          => ~Canceled(call'[u].cand)]_vars

\* C39: every match_found in a user's mailbox names a ChatSession that is
\* already stored, whose user_id_2 is the mailbox's owner and whose user_id_1
\* is the user of the notification's match payload.
C39_NotifiedSessionStored ==
    \A u \in Users : \A i \in DOMAIN user_notifications[u] :
        LET n == user_notifications[u][i] IN
        n.type = "match_found" =>
            /\ n.session_id \in DOMAIN chat_sessions
            /\ chat_sessions[n.session_id].user_id_2 = u
            /\ chat_sessions[n.session_id].user_id_1 = n.match

\* A mailbox holds the match_found of one stored session while a second call
\* has stored another session with the same user and has not notified yet.
C39_Witness ==
    \E u \in Users :
        /\ user_notifications[u] # <<>>
        /\ user_notifications[u][1].type = "match_found"
        /\ \E v \in Users :
              /\ call[v].pc = "notify" /\ call[v].cand = u
              /\ call[v].sid \in DOMAIN chat_sessions
              /\ call[v].sid # user_notifications[u][1].session_id

\* The entry of the candidate that u's scan is looking at, if that entry is
\* still the one in the queue (same user, same joined_at): the preferences the
\* candidate supplied when it was enqueued.
CandidateEntries(u) ==
    LET c == call[u].members[call[u].idx] IN
    { i \in DOMAIN queue : /\ queue[i].user_id = c.user_id
                           /\ queue[i].joined_at = c.joined_at }

\* C38: a match respects the preferences of both sides: when find_match pairs
\* the requester u with a queued candidate, the candidate satisfies u's
\* preferences and u satisfies the preferences of the candidate's queue entry.
C38_BothSidesPreferences ==
    [][\A u \in Users :
          (Scanning(u) /\ call'[u].pc = "store_match") =>
              /\ check_preferences(call'[u].cand, call[u].prefs)
              /\ \A i \in CandidateEntries(u) :
                     check_preferences(u, queue[i].preferences)]_vars

\* The requester's half of C38 alone.
C38_RequesterPreferences ==
    [][\A u \in Users :
          (Scanning(u) /\ call'[u].pc = "store_match") =>
              check_preferences(call'[u].cand, call[u].prefs)]_vars

\* C23: find_match returns the earliest-joined entry of the queue it read,
\* other than the requester's own, that passes the block filter and the
\* requester's preference filter; when no entry passes it returns no match and
\* leaves the queue as it is.
C23_FirstFit ==
    [][\A u \in Users :
          LET members == call[u].members
              passing == Eligible(members, u, call[u].prefs)
          IN (Scanning(u) /\ ~Scanning(u)')
             => IF passing = {}
                THEN /\ resp' = Queued(u)
                     /\ queue' = queue
                ELSE /\ call'[u].pc = "store_match"
                     /\ \E i \in passing :
                           /\ members[i].user_id = call'[u].cand
                           /\ members[i].joined_at = call'[u].cand_joined_at
                           /\ \A j \in passing :
                                 members[i].joined_at <= members[j].joined_at]_vars

\* C24: when the requester and a queued candidate have each blocked the other,
\* find_match skips the candidate and goes on to another candidate or to "no
\* match"; the request does not fail.
C24_MutualBlockSkipped ==
    [][\A u \in Users :
          (FindIsBlocked(u)
             /\ blocked_users[u][call[u].members[call[u].idx].user_id] >= 1
             /\ blocked_users[call[u].members[call[u].idx].user_id][u] >= 1)
          => /\ resp'.status # "error500"
             /\ queue' = queue
             /\ \/ resp' = Queued(u)
                \/ call'[u].pc = "is_blocked" /\ call'[u].idx > call[u].idx]_vars

\* ====================================================== the mailbox alone
\* NotificationManager under arbitrary callers: any interleaving of
\* add_notification and get_notifications calls (neither suspends).
MaxNotifs == 3
MaxGets == 3

\* await notification_manager.add_notification(u, n), n a fresh event.
AddNotification(u) ==
    /\ Len(posted) < MaxNotifs
    /\ LET n == MatchFound(Len(posted) + 1, (u % NumUsers) + 1) IN
       /\ user_notifications' = add_notification(user_notifications, u, n)
       /\ posted' = Append(posted, [user |-> u, n |-> n])
    /\ UNCHANGED <<extVars, matchVars, delivered, dbVars, req, wsVars>>

\* await notification_manager.get_notifications(u): the popped list is the result.
GetNotifications(u) ==
    /\ Len(delivered) < MaxGets
    /\ delivered' = Append(delivered, [user |-> u, list |-> user_notifications[u]])
    /\ user_notifications' = get_notifications(user_notifications, u)
    /\ UNCHANGED <<extVars, matchVars, posted, dbVars, req, wsVars>>

InitNotif ==
    /\ InitCommon
    /\ InitQuiet
    /\ chat_sessions = <<>>
    /\ blocked_users = NoBlocks
    /\ blocked_users_count = RowCounts(blocked_users)

NextNotif ==
    \/ \E u \in Users : AddNotification(u)
    \/ \E u \in Users : GetNotifications(u)

SpecNotif == InitNotif /\ [][NextNotif]_vars

\* The events added for u, in the order of the calls.
PostedTo(u) ==
    LET mine == SelectSeq(posted, LAMBDA e : e.user = u)
    IN [i \in DOMAIN mine |-> mine[i].n]

\* What the get_notifications(u) calls returned so far, end to end.
RECURSIVE DeliveredTo(_, _)
DeliveredTo(d, u) ==
    IF d = <<>> THEN <<>>
    ELSE (IF Head(d).user = u THEN Head(d).list ELSE <<>>) \o DeliveredTo(Tail(d), u)

\* C8: for every user U, the lists returned by the get_notifications(U) calls,
\* end to end and followed by U's mailbox, are exactly the events added for U
\* in insertion order (so an event is returned at most once and only to a call
\* for U); and straight after get_notifications(U), U's mailbox is empty.
C8_DeliveredOnceInOrder ==
    /\ [](\A u \in Users :
            DeliveredTo(delivered, u) \o user_notifications[u] = PostedTo(u))
    /\ [][\A u \in Users : GetNotifications(u) => user_notifications'[u] = <<>>]_vars

\* A call for U returned two events at once, a later call for U returned a
\* later event, and a call for another user came back empty in between.
C8_Witness ==
    \E i, j, k \in DOMAIN delivered :
        /\ i < k /\ k < j
        /\ delivered[i].user = delivered[j].user
        /\ delivered[k].user # delivered[i].user
        /\ Len(delivered[i].list) = 2
        /\ delivered[j].list # <<>>
        /\ delivered[k].list = <<>>

\* ====================================================== passwords and tokens
\* app/core/security.py.  A password hash is the algorithm, the salt and the
\* digest of salt + password; the digest is modelled as an injective function
\* of its argument.
HASH_ALGORITHM == "sha256"

sha256(text) == [digest_of |-> text]

get_password_hash(password, salt) ==
    [algorithm |-> HASH_ALGORITHM, salt |-> salt, hash |-> sha256(<<salt>> \o password)]

verify_password(plain_password, hashed_password) ==
    /\ plain_password # <<>>
    /\ hashed_password.algorithm = HASH_ALGORITHM
    /\ sha256(<<hashed_password.salt>> \o plain_password) = hashed_password.hash

\* The users table: email and password_hash of each user.  Passwords and
\* emails are sequences, the empty one being the empty string.
UserEmail(u) == <<u>>
UserPassword(u) == <<(u % 2) + 1>>
UserPasswordHash(u) == get_password_hash(UserPassword(u), u)

Emails == {<<>>} \cup { <<u>> : u \in 0..NumUsers }
Passwords == {<<>>, <<1>>, <<2>>}

\* A JWT: its claims and whether the signature is the server's.
JWT_EXPIRE_MINUTES == 60 * 24 * 7
JWT_REFRESH_EXPIRE_DAYS == 30

EmptyToken == [sub |-> None, type |-> "", exp |-> 0, sig |-> "none"]

create_access_token(sub, t) ==
    [sub |-> sub, type |-> "access", exp |-> t + JWT_EXPIRE_MINUTES, sig |-> "good"]

create_refresh_token(sub, t) ==
    [sub |-> sub, type |-> "refresh",
     exp |-> t + JWT_REFRESH_EXPIRE_DAYS * 24 * 60, sig |-> "good"]

\* The tokens a client may present: none, tokens the server signed (expired at
\* time 0 or not yet), and tokens with another signature.
Tokens ==
    {EmptyToken} \cup
    [sub : Users, type : {"access", "refresh"}, exp : {0, JWT_EXPIRE_MINUTES},
     sig : {"good", "bad"}]

verify_token_any_type(token, token_type, t) ==
    IF token = EmptyToken THEN None
    ELSE IF token.sig # "good" \/ token.exp < t THEN None
    ELSE token.sub

\* verify_token at time t: the payload's sub (all that the callers read of the
\* payload), or None.  jwt.decode raises on a wrong signature and on an exp in
\* the past.
verify_token(token, token_type, t) ==
    IF token = EmptyToken THEN None
    ELSE IF token.sig # "good" \/ token.exp < t THEN None
    ELSE IF token.type # token_type THEN None
    ELSE IF token.sub = None THEN None
    ELSE token.sub

\* get_current_user: the user of an access token, unless unknown or banned.
get_current_user(token, t) ==
    LET user_id == verify_token(token, "access", t) IN
    IF user_id = None THEN None
    ELSE IF user_id \notin Users THEN None
    ELSE IF is_banned[user_id] THEN None
    ELSE user_id

\* select(User).where(User.email == email)
UserByEmail(email) ==
    IF \E u \in Users : UserEmail(u) = email
    THEN CHOOSE u \in Users : UserEmail(u) = email
    ELSE None

authenticate_user_banned(email, password) ==
    IF email = <<>> \/ password = <<>> THEN None
    ELSE LET user == UserByEmail(email) IN
         IF user = None THEN None
         ELSE IF ~verify_password(password, UserPasswordHash(user)) THEN None
         ELSE user

authenticate_user(email, password) ==
    IF email = <<>> \/ password = <<>> THEN None
    ELSE LET user == UserByEmail(email) IN
         IF user = None THEN None
         ELSE IF ~verify_password(password, UserPasswordHash(user)) THEN None
         ELSE IF is_banned[user] THEN None
         ELSE user

\* A request and its response.
Request(op, email, password, token) ==
    [op |-> op, email |-> email, password |-> password, token |-> token]

HttpError(st, detail) ==
    [status |-> st, detail |-> detail, user |-> None,
     access_token |-> EmptyToken, refresh_token |-> EmptyToken]

TokenResponse(user, t) ==
    [status |-> 200, detail |-> "", user |-> None,
     access_token |-> create_access_token(user, t),
     refresh_token |-> create_refresh_token(user, t)]

UserResponse(user) ==
    [status |-> 200, detail |-> "", user |-> user,
     access_token |-> EmptyToken, refresh_token |-> EmptyToken]

\* POST /auth/login.  No step of it writes, and nothing else writes the users
\* table, so its one SELECT needs no step of its own.
Login(email, password) ==
    /\ req' = Request("login", email, password, EmptyToken)
    /\ ret' = IF email = <<>> \/ password = <<>>
              THEN HttpError(400, "Email and password are required")
              ELSE IF authenticate_user(email, password) = None
              THEN HttpError(401, "Invalid credentials")
              ELSE TokenResponse(authenticate_user(email, password), now)
    /\ UNCHANGED <<messages, rate_limits, redis, sent, matchVars, notifVars, dbVars, wsVars>>

\* POST /auth/refresh.
RefreshToken(refresh_token) ==
    /\ req' = Request("refresh", <<>>, <<>>, refresh_token)
    /\ ret' = IF refresh_token = EmptyToken
              THEN HttpError(400, "Refresh token is required")
              ELSE LET user_id == verify_token(refresh_token, "refresh", now) IN
                   IF user_id = None
                   THEN HttpError(401, "Invalid or expired refresh token")
                   ELSE IF user_id \notin Users \/ is_banned[user_id]
                   THEN HttpError(401, "User not found or banned")
                   ELSE TokenResponse(user_id, now)
    /\ UNCHANGED <<messages, rate_limits, redis, sent, matchVars, notifVars, dbVars, wsVars>>

\* get_user_from_token, the dependency of every protected endpoint, as GET
\* /auth/me shows it: the user, or 401.
GetMe(token) ==
    /\ req' = Request("me", <<>>, <<>>, token)
    /\ ret' = IF token = EmptyToken THEN HttpError(401, "Missing token")
              ELSE IF get_current_user(token, now) = None
              THEN HttpError(401, "Invalid or expired token")
              ELSE IF is_banned[get_current_user(token, now)]
              THEN HttpError(403, "User account is banned")
              ELSE UserResponse(get_current_user(token, now))
    /\ UNCHANGED <<messages, rate_limits, redis, sent, matchVars, notifVars, dbVars, wsVars>>

\* ====================================================== the WebSocket endpoint
\* websocket_endpoint up to manager.connect, and the disconnect of an accepted
\* socket.  A connection attempt suspends in each database statement and in
\* websocket.accept().
NumConns == 3
Conns == 1..NumConns

WS_1008_POLICY_VIOLATION == 1008

NoClose == [code |-> None, reason |-> ""]
PolicyViolation(reason) == [code |-> WS_1008_POLICY_VIOLATION, reason |-> reason]

\* No frame is being handled: the loop awaits receive_text().
NoFrame == [type |-> "none", reason |-> "None"]

\* The `for` of a broadcast_to_session call: the event it sends and
\* exclude_user, the size and the members of the set when the iterator was
\* made (-1: not yet made), the members the iterator has passed, the sends that
\* arrived, and whether the set has been dropped from the manager.  present
\* are the users who had a live socket on the session when the loop began.
NoBroadcast ==
    [event |-> "none", exclude |-> None, size |-> -1, members |-> {},
     visited |-> {}, got |-> {}, present |-> {}, orphan |-> FALSE]

\* opponent: the other user of the ChatSession row the endpoint holds; frame
\* and bc: the frame the message loop is handling and its broadcast.
NewConn ==
    [pc |-> "new", user |-> None, sid |-> None, close |-> NoClose,
     opponent |-> None, frame |-> NoFrame, bc |-> NoBroadcast]
Closed(u, s, reason) ==
    [pc |-> "closed", user |-> u, sid |-> s, close |-> PolicyViolation(reason),
     opponent |-> None, frame |-> NoFrame, bc |-> NoBroadcast]

\* The session ids a client may name: the stored session and an unknown one.
WsSessions == {1, 2}

\* The users who open sockets: the session's creator, the second participant
\* and an outsider.
WsUsers == {1, 2, 3}

\* The tokens they present: none, and access and refresh tokens not yet
\* expired, signed by the server or not.
WsTokens ==
    {EmptyToken} \cup { token \in Tokens : token.sub \in WsUsers /\ token.exp > 0 }

is_participant_any(cs, u) == TRUE

is_participant(cs, u) == cs.user_id_1 = u \/ cs.user_id_2 = u

can_join_any(cs, u) == cs.user_id_1 # u

\* The join rule without its test of user_id_1.
can_join_empty_slot(cs, u) == cs.user_id_2 = None

\* not chat_session.user_id_2 and chat_session.user_id_1 != user_id
can_join(cs, u) == cs.user_id_2 = None /\ cs.user_id_1 # u

\* The request arrives: verify_token and the SELECT of the user (no step here
\* writes users.is_banned, so the row is the same whenever it is read); a valid
\* access token of a user who is not banned gets to the SELECT of the
\* ChatSession.  Sockets are numbered in the order of their arrival.
WsOpen(c, token, s) ==
    /\ ws[c].pc = "new"
    /\ \A d \in 1..(c - 1) : ws[d].pc # "new"
    /\ LET u == verify_token(token, "access", now) IN
       ws' = [ws EXCEPT ![c] =
                IF u = None THEN Closed(None, s, "Invalid token")
                ELSE IF u \notin Users \/ is_banned[u]
                THEN Closed(u, s, "User banned or not found")
                ELSE [NewConn EXCEPT !.pc = "select_session", !.user = u, !.sid = s]]
    /\ sent' = {}
    /\ UNCHANGED <<messages, rate_limits, redis, ret, matchVars, notifVars, dbVars, req,
                   active_connections, session_connections>>

\* The ChatSession row is back: the join rule.  A caller who can join sets
\* user_id_2 on the loaded row and suspends in commit.
WsSelectSession(c) ==
    /\ ws[c].pc = "select_session"
    /\ LET u == ws[c].user
           s == ws[c].sid
       IN ws' = [ws EXCEPT ![c] =
                IF s \notin DOMAIN chat_sessions
                THEN Closed(u, s, "Session not found")
                ELSE IF ~is_participant(chat_sessions[s], u) /\ ~can_join(chat_sessions[s], u)
                THEN Closed(u, s, "Not a participant or session is full")
                ELSE IF can_join(chat_sessions[s], u)
                THEN [@ EXCEPT !.pc = "commit",
                               !.opponent = chat_sessions[s].user_id_1]
                ELSE [@ EXCEPT !.pc = "accept",
                               !.opponent = IF u = chat_sessions[s].user_id_1
                                            THEN chat_sessions[s].user_id_2
                                            ELSE chat_sessions[s].user_id_1]]
    /\ sent' = {}
    /\ UNCHANGED <<messages, rate_limits, redis, ret, matchVars, notifVars, dbVars, req,
                   active_connections, session_connections>>

\* An UPDATE that writes the row with the status it had when it was created.
assign_user_id_2_all_columns(cs, s, u) ==
    [cs EXCEPT ![s] = [@ EXCEPT !.user_id_2 = u, !.status = "active"]]

\* chat_session.user_id_2 = user_id; add; commit: the UPDATE writes the one
\* column that was assigned.
assign_user_id_2(cs, s, u) == [cs EXCEPT ![s].user_id_2 = u]

\* await db_session.commit(): the UPDATE of user_id_2 reaches the table.  The
\* refresh that follows re-reads the row into an object no step here reads
\* again; then websocket.accept() is awaited.
WsCommit(c) ==
    /\ ws[c].pc = "commit"
    /\ chat_sessions' = assign_user_id_2(chat_sessions, ws[c].sid, ws[c].user)
    /\ ws' = [ws EXCEPT ![c].pc = "accept"]
    /\ sent' = {}
    /\ UNCHANGED <<messages, rate_limits, redis, ret, matchVars, notifVars, blocked_users,
                   reports, blocked_users_count, is_banned, reports_count, req, active_connections,
                   session_connections>>

\* ConnectionManager.connect after accept(): the registrations.
connect(sc, u, s) ==
    [k \in DOMAIN sc \cup {s} |-> IF k = s
                                  THEN (IF s \in DOMAIN sc THEN sc[s] ELSE {}) \cup {u}
                                  ELSE sc[k]]

\* A disconnect that discards the user and keeps the key of an emptied set.
disconnect_keep_key(sc, u, s) ==
    IF s \notin DOMAIN sc THEN sc ELSE [sc EXCEPT ![s] = @ \ {u}]

\* ConnectionManager.disconnect: discard the user, drop an emptied set.
disconnect(sc, u, s) ==
    IF s \notin DOMAIN sc THEN sc
    ELSE IF sc[s] \ {u} = {} THEN [k \in DOMAIN sc \ {s} |-> sc[k]]
    ELSE [sc EXCEPT ![s] = @ \ {u}]

\* del self.session_connections[session_id]: a broadcast that iterates the set
\* dropped between sc and sc2 keeps the set object, now empty and no longer the
\* manager's.
Orphan(w, sc, sc2) ==
    [d \in DOMAIN w |->
        IF /\ w[d].pc = "broadcast" /\ w[d].bc.size >= 0
           /\ w[d].sid \in DOMAIN sc /\ w[d].sid \notin DOMAIN sc2
        THEN [w[d] EXCEPT !.bc.orphan = TRUE]
        ELSE w[d]]

\* ConnectionManager.broadcast_to_session: the frames of one broadcast, one to
\* the handle of each registered member of the session except exclude_user.
broadcast_to_session(sc, ac, s, type, sender, exclude_user) ==
    IF s \notin DOMAIN sc THEN {}
    ELSE { [to |-> v, socket |-> ac[v], type |-> type, user_id |-> sender] :
              v \in { x \in sc[s] : x # exclude_user /\ ac[x] # None } }

\* ConnectionManager.send_to_user: a frame to the user's handle, if any.
send_to_user(ac, u, type, sender) ==
    IF ac[u] = None THEN {}
    ELSE { [to |-> u, socket |-> ac[u], type |-> type, user_id |-> sender] }

\* manager.connect: accept() and the registrations; then user_connected to the
\* others of the session if the row held has an opponent, and the STUN/TURN
\* frame to the user.
WsAccept(c) ==
    /\ ws[c].pc = "accept"
    /\ active_connections' = [active_connections EXCEPT ![ws[c].user] = c]
    /\ session_connections' = connect(session_connections, ws[c].user, ws[c].sid)
    /\ ws' = [ws EXCEPT ![c].pc = "open"]
    /\ sent' = (IF ws[c].opponent = None THEN {}
                ELSE broadcast_to_session(session_connections', active_connections',
                                          ws[c].sid, "user_connected", ws[c].user,
                                          ws[c].user))
               \cup send_to_user(active_connections', ws[c].user,
                                 "stun_turn_servers", ws[c].user)
    /\ UNCHANGED <<messages, rate_limits, redis, ret, matchVars, notifVars, dbVars, req>>

\* WebSocketDisconnect in the message loop: the client has closed the socket;
\* the handler unregisters the user and broadcasts user_disconnected.
WsDisconnect(c) ==
    /\ ws[c].pc = "open"
    /\ active_connections' = [active_connections EXCEPT ![ws[c].user] = None]
    /\ session_connections' = disconnect(session_connections, ws[c].user, ws[c].sid)
    /\ ws' = Orphan([ws EXCEPT ![c].pc = "disconnected"],
                    session_connections, session_connections')
    /\ sent' = broadcast_to_session(session_connections', active_connections',
                                    ws[c].sid, "user_disconnected", ws[c].user, None)
    /\ UNCHANGED <<messages, rate_limits, redis, ret, matchVars, notifVars, dbVars, req>>

\* The stored session: user 1's, with the second slot empty or taken by user 2.
InitWS ==
    /\ InitCommon
    /\ blocked_users = NoBlocks
    /\ blocked_users_count = RowCounts(blocked_users)
    /\ req = <<>>
    /\ chat_sessions \in { <<ActiveSession(1, None)>>, <<ActiveSession(1, 2)>> }
    /\ is_banned \in { [u \in Users |-> FALSE], [u \in Users |-> u = 1] }
    /\ reports_count = [u \in Users |-> 0]
    /\ ws = [c \in Conns |-> NewConn]

NextWS ==
    \/ \E c \in Conns : \E token \in WsTokens : \E s \in WsSessions :
          WsOpen(c, token, s)
    \/ \E c \in Conns : WsSelectSession(c)
    \/ \E c \in Conns : WsCommit(c)
    \/ \E c \in Conns : WsAccept(c)
    \/ \E c \in Conns : WsDisconnect(c)

SpecWS == InitWS /\ [][NextWS]_vars

JoinRule(c, reason) ==
    LET u == ws[c].user
        s == ws[c].sid
    IN /\ (WsSelectSession(c) /\ s \in DOMAIN chat_sessions) =>
            /\ (chat_sessions[s].user_id_2 = None /\ u # chat_sessions[s].user_id_1)
                  => ws'[c].pc = "commit"
            /\ (chat_sessions[s].user_id_2 # None
                 /\ u \notin {chat_sessions[s].user_id_1, chat_sessions[s].user_id_2})
                  => /\ ws'[c] = Closed(u, s, reason)
                     /\ UNCHANGED <<chat_sessions, active_connections,
                                    session_connections>>
       /\ WsCommit(c) => chat_sessions'[s].user_id_2 = u
       /\ WsAccept(c) => /\ active_connections'[u] = c
                         /\ u \in session_connections'[s]
       /\ ws[c].pc = "closed" => ws'[c] = ws[c]

\* C4 as stated: with user_id_1 = A and the second slot empty, C's connection
\* sets user_id_2 = C and is accepted; a later attempt by a user D outside
\* {A, C} is closed with code 1008 and reason "Session full", is not
\* registered, and leaves user_id_2 = C.
C4_SessionFull ==
    [][\A c \in Conns : JoinRule(c, "Session full")]_vars

\* C4 as amended: the same, the reason of the closure being "Not a participant
\* or session is full".
C4_Amended ==
    [][\A c \in Conns : JoinRule(c, "Not a participant or session is full")]_vars

\* User 3 filled the empty slot and is connected; user 2's later attempt was
\* closed as a non-participant of a full session.
C4_Witness ==
    \E c, d \in Conns :
        /\ c < d
        /\ ws[c].pc = "open" /\ ws[c].user = 3 /\ ws[c].sid = 1
        /\ chat_sessions[1].user_id_2 = 3
        /\ 3 \in session_connections[1]
        /\ ws[d] = Closed(2, 1, "Not a participant or session is full")

Genders == {"male", "female", "None"}
Ages == {None, 17, 18, 25, 30}
AgeMins == {None, Null, 18}
AgeMaxes == {None, Null, 20}

PrefInputs ==
    [gender : Genders, age : Ages,
     preferences : [gender_preference : {"None", "female"},
                    age_min : AgeMins, age_max : AgeMaxes]]

CheckPreferences ==
    /\ ret = "none"
    /\ ret' = match_preferences(req.gender, req.age, req.preferences)
    /\ UNCHANGED <<messages, rate_limits, redis, sent, matchVars, notifVars, dbVars, req,
                   wsVars>>

InitPrefs ==
    /\ queue = <<>>
    /\ now = 0
    /\ call = [u \in Users |-> IdleCall]
    /\ resp = NoResp
    /\ user_notifications = [u \in Users |-> <<>>]
    /\ posted = <<>>
    /\ delivered = <<>>
    /\ reports = NoBlocks
    /\ blocked_users = NoBlocks
    /\ blocked_users_count = RowCounts(blocked_users)
    /\ is_banned = [u \in Users |-> FALSE]
    /\ reports_count = [u \in Users |-> 0]
    /\ chat_sessions = <<>>
    /\ ws = <<>>
    /\ active_connections = [u \in Users |-> None]
    /\ session_connections = <<>>
    /\ req \in PrefInputs
    /\ messages = {}
    /\ rate_limits = <<>>
    /\ redis = NoRedis
    /\ sent = {}
    /\ ret = "none"

NextPrefs == CheckPreferences

SpecPrefs == InitPrefs /\ [][NextPrefs]_vars

\* ====================================================== claims: preferences
\* The dict carries no age_min / age_max value.
NoAgePreference(p) == p.age_min \in {None, Null} /\ p.age_max \in {None, Null}

GenderAllows(gender, p) ==
    p.gender_preference = "None" \/ gender = p.gender_preference

\* C19: a candidate whose age is below the requester's age_min or above the
\* requester's age_max is excluded; a candidate is not excluded when the
\* requester sets no age preference; a candidate with no age on file is never
\* excluded by an age bound.
C19_AgePreference ==
    ret # "none" =>
       LET p == req.preferences IN
       /\ (req.age # None /\ p.age_min \notin {None, Null} /\ req.age < p.age_min)
             => ret = "fail"
       /\ (req.age # None /\ p.age_max \notin {None, Null} /\ req.age > p.age_max)
             => ret = "fail"
       /\ (NoAgePreference(p) /\ GenderAllows(req.gender, p)) => ret = "pass"
       /\ (req.age = None /\ GenderAllows(req.gender, p)) => ret = "pass"

\* The candidate has no age, or an age inside the bounds the dict sets.
AgeAllows(age, p) ==
    \/ age = None
    \/ /\ p.age_min = None \/ (p.age_min # Null /\ age >= p.age_min)
       /\ p.age_max = None \/ (p.age_max # Null /\ age <= p.age_max)

\* C25: a candidate with an attribute unset is never excluded by a preference
\* on that attribute: without a gender on file the candidate passes a
\* gender_preference, and without an age on file it passes age_min and age_max.
C25_UnsetNeverExcluded ==
    ret # "none" =>
       LET p == req.preferences IN
       /\ (req.gender = "None" /\ AgeAllows(req.age, p)) => ret = "pass"
       /\ (req.age = None /\ GenderAllows(req.gender, p)) => ret = "pass"

\* The clock that datetime.utcnow() and func.now() read.
Tick ==
    /\ now < MaxTime
    /\ now' = now + 1
    /\ UNCHANGED <<extVars, queue, call, resp, notifVars, dbVars, req, wsVars>>

\* ====================================================== the rate limit
\* rate_limit_check, with the counter in Redis or in
\* in_memory_cache["rate_limits"].  One tick of the clock is 1 / HourTicks of an
\* hour; a Redis call takes no time on that scale.
MAX_MATCHES_PER_HOUR == 10
HourTicks == 2
MaxCalls == 12

\* The user whose calls are followed (the key is "matches:{user_id}").
RateUsers == {1}

\* A counter: absent (count 0), or a count with the time its window ends.
NoEntry == [count |-> 0, expires_at |-> 0]

\* The in-memory branch.
rate_limit_memory(e, t) ==
    IF e = NoEntry THEN [count |-> 1, expires_at |-> t + HourTicks]
    ELSE IF e.expires_at > t THEN [e EXCEPT !.count = @ + 1]
    ELSE [count |-> 1, expires_at |-> t + HourTicks]

\* The Redis branch: INCR of a key that Redis drops when its TTL has run out,
\* and EXPIRE 3600 when INCR returned 1.
rate_limit_redis(e, t) ==
    LET key == IF e.count > 0 /\ e.expires_at > t THEN e ELSE NoEntry
        count == key.count + 1
    IN IF count = 1 THEN [count |-> 1, expires_at |-> t + HourTicks]
       ELSE [key EXCEPT !.count = count]

within_limit_strict(count) == count < MAX_MATCHES_PER_HOUR

\* return count <= settings.MAX_MATCHES_PER_HOUR
within_limit(count) == count <= MAX_MATCHES_PER_HOUR

RateLimitCheck(u) ==
    /\ Len(ret) < MaxCalls
    /\ LET e == IF rate_limits.redis
                THEN rate_limit_redis(rate_limits.entries[u], now)
                ELSE rate_limit_memory(rate_limits.entries[u], now)
       IN /\ rate_limits' = [rate_limits EXCEPT !.entries[u] = e]
          /\ ret' = Append(ret, [user |-> u, at |-> now,
                                 allowed |-> within_limit(e.count)])
    /\ UNCHANGED <<messages, redis, sent, matchVars, notifVars, dbVars, req, wsVars>>

\* No counter yet; Redis is configured or it is not.  ret is the calls made so
\* far with what they returned.
InitRate ==
    /\ queue = <<>>
    /\ now = 0
    /\ call = [u \in Users |-> IdleCall]
    /\ resp = NoResp
    /\ user_notifications = [u \in Users |-> <<>>]
    /\ posted = <<>>
    /\ delivered = <<>>
    /\ reports = NoBlocks
    /\ blocked_users = NoBlocks
    /\ blocked_users_count = RowCounts(blocked_users)
    /\ is_banned = [u \in Users |-> FALSE]
    /\ reports_count = [u \in Users |-> 0]
    /\ chat_sessions = <<>>
    /\ ws = <<>>
    /\ active_connections = [u \in Users |-> None]
    /\ session_connections = <<>>
    /\ req = <<>>
    /\ messages = {}
    /\ rate_limits \in { [redis |-> b, entries |-> [u \in RateUsers |-> NoEntry]] :
                            b \in BOOLEAN }
    /\ redis = NoRedis
    /\ sent = {}
    /\ ret = <<>>

NextRate ==
    \/ Tick
    \/ \E u \in RateUsers : RateLimitCheck(u)

SpecRate == InitRate /\ [][NextRate]_vars

\* ====================================================== claims: rate limit
\* Where the last of the calls made at these times stands: the start of its
\* one-hour window and its number k in that window.  A window starts with the
\* first call and with the first call made an hour or more after a start.
RECURSIVE CallIndex(_)
CallIndex(times) ==
    IF Len(times) = 1 THEN [start |-> times[1], k |-> 1]
    ELSE LET before == CallIndex(SubSeq(times, 1, Len(times) - 1))
             t == times[Len(times)]
         IN IF t >= before.start + HourTicks
            THEN [start |-> t, k |-> 1]
            ELSE [start |-> before.start, k |-> before.k + 1]

CallTimes(u) == [i \in 1..Len(ret) |-> ret[i].at]

NoRequest == Request("none", <<>>, <<>>, EmptyToken)

InitAuth ==
    /\ queue = <<>>
    /\ now = 0
    /\ call = [u \in Users |-> IdleCall]
    /\ resp = NoResp
    /\ user_notifications = [u \in Users |-> <<>>]
    /\ posted = <<>>
    /\ delivered = <<>>
    /\ reports = NoBlocks
    /\ blocked_users = NoBlocks
    /\ blocked_users_count = RowCounts(blocked_users)
    /\ is_banned \in { [u \in Users |-> FALSE], [u \in Users |-> u = 2] }
    /\ reports_count = [u \in Users |-> 0]
    /\ chat_sessions = <<ActiveSession(1, None)>>
    /\ ws = [c \in Conns |-> NewConn]
    /\ active_connections = [u \in Users |-> None]
    /\ session_connections = <<>>
    /\ req = NoRequest
    /\ messages = {}
    /\ rate_limits = <<>>
    /\ redis = NoRedis
    /\ sent = {}
    /\ ret = HttpError(None, "")

NextAuth ==
    \/ Tick
    \/ \E email \in Emails : \E password \in Passwords : Login(email, password)
    \/ \E token \in Tokens : RefreshToken(token)
    \/ \E token \in Tokens : GetMe(token)
    \/ \E token \in Tokens : \E s \in WsSessions : WsOpen(1, token, s)

SpecAuth == InitAuth /\ [][NextAuth]_vars

\* ====================================================== claims: auth
\* C15: a refresh token never verifies as an access token nor an access token
\* as a refresh token; the refresh endpoint issues no tokens for an access
\* token; a protected HTTP operation and a WebSocket connection are not
\* authorised by a refresh token; and the tokens the server issues carry
\* their own type.
C15_TokenTypes ==
    /\ [](/\ \A token \in Tokens :
                /\ token.type = "refresh" => verify_token(token, "access", now) = None
                /\ token.type = "access" => verify_token(token, "refresh", now) = None
          /\ ret.access_token # EmptyToken =>
                /\ ret.access_token.type = "access"
                /\ ret.refresh_token.type = "refresh"
                /\ verify_token(ret.access_token, "access", now) # None
                /\ verify_token(ret.refresh_token, "refresh", now) # None
          /\ (req.op = "refresh" /\ req.token.type = "access")
                => /\ ret.status = 401
                   /\ ret.access_token = EmptyToken
                   /\ ret.refresh_token = EmptyToken
          /\ (req.op = "me" /\ req.token.type = "refresh")
                => ret.status = 401 /\ ret.user = None)
    /\ [][(ws[1].pc = "new" /\ ws'[1].pc # "new")
             => \A token \in Tokens : \A s \in WsSessions :
                   (WsOpen(1, token, s) /\ token.type = "refresh")
                   => ws'[1] = Closed(None, s, "Invalid token")]_vars

\* The refresh endpoint has refused the unexpired, server-signed access token
\* of a user who is not banned.
C15_Witness ==
    /\ req.op = "refresh"
    /\ req.token.type = "access" /\ req.token.sig = "good" /\ req.token.exp >= now
    /\ ~is_banned[req.token.sub]
    /\ ret.status = 401 /\ ret.access_token = EmptyToken

\* Why a login with email and password is refused, if it is.
UnknownEmail(email) == \A u \in Users : UserEmail(u) # email
WrongPassword(email, password) ==
    \E u \in Users : UserEmail(u) = email /\ UserPassword(u) # password
BannedAccount(email, password) ==
    \E u \in Users :
        UserEmail(u) = email /\ UserPassword(u) = password /\ is_banned[u]

\* C16: a login with an unknown email, with a wrong password, or with the
\* correct password of a banned account gets the same response (401, detail
\* "Invalid credentials", no tokens) and changes no stored state.
C16_LoginRefusals ==
    [][\A email \in Emails \ {<<>>} : \A password \in Passwords \ {<<>>} :
          (/\ Login(email, password)
           /\ \/ UnknownEmail(email)
              \/ WrongPassword(email, password)
              \/ BannedAccount(email, password))
          => /\ ret' = HttpError(401, "Invalid credentials")
             /\ UNCHANGED <<dbVars, wsVars, matchVars, notifVars, messages,
                            rate_limits>>]_vars

\* The correct password of the banned user has been refused.
C16_Witness ==
    /\ req.op = "login"
    /\ BannedAccount(req.email, req.password)
    /\ ret = HttpError(401, "Invalid credentials")

\* The token is an unexpired access token the server signed.
ValidAccess(token) ==
    /\ token # EmptyToken
    /\ verify_token(token, "access", now) # None

\* C31: required-auth resolution answers the valid access token of a banned
\* user with 403, a missing or invalid token or an unknown user with 401, and
\* returns a user only if the user exists and is not banned.
C31_BannedForbidden ==
    [][\A token \in Tokens :
          GetMe(token)
          => /\ (ValidAccess(token) /\ token.sub \in Users /\ is_banned[token.sub])
                   => ret'.status = 403
             /\ (~ValidAccess(token) \/ token.sub \notin Users)
                   => ret'.status = 401
             /\ ret'.user # None
                   => (ret'.user \in Users /\ ~is_banned[ret'.user])]_vars

\* ====================================================== messages and history
\* The message loop's chat_message branch and GET /chat/history/{session_id}.
MaxMessages == 3

\* The history requests: they only read, so one is followed.
HistReqs == {1}

\* Message(chat_session_id, sender_id, ...) with created_at = func.now().
Message(id, s, u, t) ==
    [id |-> id, chat_session_id |-> s, sender_id |-> u, created_at |-> t]

\* A "message" frame on an open socket: the Message row is committed and
\* chat_message is broadcast to the session, the sender included.
WsMessage(c) ==
    /\ ws[c].pc = "open"
    /\ Cardinality(messages) < MaxMessages
    /\ messages' = messages \cup
          {Message(Cardinality(messages) + 1, ws[c].sid, ws[c].user, now)}
    /\ sent' = broadcast_to_session(session_connections, active_connections,
                                    ws[c].sid, "chat_message", ws[c].user, None)
    /\ UNCHANGED <<rate_limits, redis, ret, matchVars, notifVars, dbVars, req, wsVars>>

\* The sequences that list every row of rows once.
Listings(rows) ==
    { f \in [1..Cardinality(rows) -> rows] :
         \A i, j \in 1..Cardinality(rows) : i # j => f[i] # f[j] }

order_by_nothing(rows) == Listings(rows)

\* .order_by(Message.created_at): ascending, rows of equal created_at in the
\* order the database picks.
order_by_created_at(rows) ==
    { f \in Listings(rows) :
         \A i \in 1..(Cardinality(rows) - 1) :
            f[i].created_at <= f[i + 1].created_at }

NewHist ==
    [pc |-> "new", user |-> None, sid |-> None, status |-> None, detail |-> "",
     messages |-> <<>>]

HistoryError(h, st, detail) ==
    [h EXCEPT !.pc = "done", !.status = st, !.detail = detail]

\* The session ids a history request may name, the two stored sessions and an
\* unknown one, and the users who ask: a participant of each session.
HistSessions == {1, 2, 3}
HistUsers == {1, 3}

\* get_chat_history: get_user_from_token has resolved current_user and the
\* SELECT of the ChatSession is issued.  Requests are numbered in the order of
\* their arrival.
GetChatHistoryStart(r, u, s) ==
    /\ req[r].pc = "new"
    /\ \A q \in 1..(r - 1) : req[q].pc # "new"
    /\ req' = [req EXCEPT ![r] =
                 [NewHist EXCEPT !.pc = "select_session", !.user = u, !.sid = s]]
    /\ UNCHANGED <<extVars, matchVars, notifVars, dbVars, wsVars>>

\* The ChatSession row is back: 404 without it, 403 for a user who is neither
\* user_id_1 nor user_id_2; else the SELECT of the messages is issued.
GetChatHistorySelectSession(r) ==
    /\ req[r].pc = "select_session"
    /\ LET u == req[r].user
           s == req[r].sid
       IN req' = [req EXCEPT ![r] =
                 IF s \notin DOMAIN chat_sessions
                 THEN HistoryError(@, 404, "Session not found")
                 ELSE IF ~is_participant(chat_sessions[s], u)
                 THEN HistoryError(@, 403, "Not authorized to view this chat")
                 ELSE [@ EXCEPT !.pc = "select_messages"]]
    /\ UNCHANGED <<extVars, matchVars, notifVars, dbVars, wsVars>>

\* The rows are back and the response is built from them.
GetChatHistorySelectMessages(r) ==
    /\ req[r].pc = "select_messages"
    /\ \E out \in order_by_created_at(
                     { m \in messages : m.chat_session_id = req[r].sid }) :
          req' = [req EXCEPT ![r].pc = "done", ![r].status = 200,
                             ![r].messages = out]
    /\ UNCHANGED <<extVars, matchVars, notifVars, dbVars, wsVars>>

\* Two stored sessions, of users 1 and 2 and of user 3 alone, each participant
\* with an open socket on the session.
OpenConn(c) ==
    IF c <= 3
    THEN [NewConn EXCEPT !.pc = "open", !.user = c,
                         !.sid = IF c <= 2 THEN 1 ELSE 2,
                         !.opponent = IF c <= 2 THEN 3 - c ELSE None]
    ELSE NewConn

InitConnected ==
    /\ queue = <<>>
    /\ now = 0
    /\ call = [u \in Users |-> IdleCall]
    /\ resp = NoResp
    /\ user_notifications = [u \in Users |-> <<>>]
    /\ posted = <<>>
    /\ delivered = <<>>
    /\ reports = NoBlocks
    /\ blocked_users = NoBlocks
    /\ blocked_users_count = RowCounts(blocked_users)
    /\ is_banned = [u \in Users |-> FALSE]
    /\ reports_count = [u \in Users |-> 0]
    /\ chat_sessions = <<ActiveSession(1, 2), ActiveSession(3, None)>>
    /\ ws = [c \in Conns |-> OpenConn(c)]
    /\ active_connections = [u \in Users |-> IF u <= 3 THEN u ELSE None]
    /\ session_connections = <<{1, 2}, {3}>>
    /\ messages = {}
    /\ rate_limits = <<>>
    /\ redis = NoRedis
    /\ sent = {}
    /\ ret = None

InitHistory ==
    /\ InitConnected
    /\ req = [r \in HistReqs |-> NewHist]

NextHistory ==
    \/ Tick
    \/ \E c \in Conns : WsMessage(c)
    \/ \E r \in HistReqs : \E u \in HistUsers : \E s \in HistSessions :
          GetChatHistoryStart(r, u, s)
    \/ \E r \in HistReqs : GetChatHistorySelectSession(r)
    \/ \E r \in HistReqs : GetChatHistorySelectMessages(r)

SpecHistory == InitHistory /\ [][NextHistory]_vars

\* ====================================================== the ends of a socket
\* The ways the message loop of a registered socket ends.
WS_1011_SERVER_ERROR == 1011

\* An "end_session" frame: the ChatSession is selected, its status set and
\* commit is awaited.
WsEndSession(c) ==
    /\ ws[c].pc = "open"
    /\ ws' = [ws EXCEPT ![c].pc = "end_commit"]
    /\ sent' = {}
    /\ UNCHANGED <<messages, rate_limits, redis, ret, matchVars, notifVars, dbVars, req,
                   active_connections, session_connections>>

\* The commit is done: session_ended is broadcast and `break` leaves the loop;
\* the endpoint returns.
WsEndSessionCommit(c) ==
    /\ ws[c].pc = "end_commit"
    /\ chat_sessions' = [chat_sessions EXCEPT ![ws[c].sid].status = "ended"]
    /\ ws' = [ws EXCEPT ![c].pc = "ended"]
    /\ sent' = broadcast_to_session(session_connections, active_connections,
                                    ws[c].sid, "session_ended", ws[c].user, None)
    /\ UNCHANGED <<messages, rate_limits, redis, ret, matchVars, notifVars, blocked_users,
                   reports, blocked_users_count, is_banned, reports_count, req, active_connections,
                   session_connections>>

\* `except Exception` of the endpoint, as a frame that is not JSON raises it in
\* json.loads: the user is unregistered and the socket closed with 1011.
WsError(c) ==
    /\ ws[c].pc = "open"
    /\ active_connections' = [active_connections EXCEPT ![ws[c].user] = None]
    /\ session_connections' = disconnect(session_connections, ws[c].user, ws[c].sid)
    /\ ws' = Orphan([ws EXCEPT ![c].pc = "failed",
                               ![c].close = [code |-> WS_1011_SERVER_ERROR,
                                             reason |-> "error"]],
                    session_connections, session_connections')
    /\ sent' = {}
    /\ UNCHANGED <<messages, rate_limits, redis, ret, matchVars, notifVars, dbVars, req>>

InitLoop ==
    /\ InitConnected
    /\ req = <<>>

NextLoop ==
    \/ \E c \in Conns : WsDisconnect(c)
    \/ \E c \in Conns : WsEndSession(c)
    \/ \E c \in Conns : WsEndSessionCommit(c)
    \/ \E c \in Conns : WsError(c)

SpecLoop == InitLoop /\ [][NextLoop]_vars

\* ====================================================== claims: socket ends
\* The endpoint of a socket has returned.
Ended == {"disconnected", "ended", "failed"}

\* C17: however a registered WebSocket connection ends (the client closes, an
\* error, the loop's exit after end_session), the step that ends it unregisters
\* the connection from the manager and broadcasts user_disconnected to the
\* members that remain.
C17_EndUnregisters ==
    [][\A c \in Conns :
          (ws[c].pc \notin Ended /\ ws'[c].pc \in Ended)
          => LET u == ws[c].user
                 s == ws[c].sid
             IN /\ active_connections'[u] # c
                /\ s \in DOMAIN session_connections'
                      => u \notin session_connections'[s]
                /\ sent' = broadcast_to_session(
                              session_connections', active_connections', s,
                              "user_disconnected", u, None)]_vars

\* ====================================================== claims: history
\* The rows of session s in the messages table.
SessionMessages(s) == { m \in messages : m.chat_session_id = s }

TokenPasses(token) ==
    /\ token # EmptyToken
    /\ token.sig = "good" /\ token.exp >= now /\ token.type = "access"
    /\ token.sub \in Users /\ ~is_banned[token.sub]

MayJoin(cs, u) ==
    \/ u = cs.user_id_1
    \/ u = cs.user_id_2
    \/ cs.user_id_2 = None

C18_AcceptAfterChecks ==
    /\ [](\A c \in Conns :
            /\ ws[c].pc = "closed" => ws[c].close.code = WS_1008_POLICY_VIOLATION
            /\ \A u \in Users :
                  active_connections[u] = c => ws[c].pc = "open" /\ ws[c].user = u)
    /\ [][\A c \in Conns :
             /\ ws[c].pc = "closed" => ws'[c] = ws[c]
             /\ (ws'[c].pc = "closed" /\ ws[c].pc # "closed")
                => /\ ws[c].pc \in {"new", "select_session"}
                   /\ UNCHANGED <<chat_sessions, active_connections,
                                  session_connections>>
             /\ (ws'[c].pc = "select_session" /\ ws[c].pc # "select_session")
                => ws[c].pc = "new"
             /\ (ws'[c].pc = "commit" /\ ws[c].pc # "commit")
                => ws[c].pc = "select_session"
             /\ (ws'[c].pc = "accept" /\ ws[c].pc # "accept")
                => ws[c].pc \in {"select_session", "commit"}
             /\ (ws'[c].pc = "open" /\ ws[c].pc # "open")
                => ws[c].pc = "accept"
             /\ (ws[c].pc = "new" /\ ws'[c].pc # "new")
                => \A token \in WsTokens : \A s \in WsSessions :
                      WsOpen(c, token, s) =>
                         IF TokenPasses(token)
                         THEN /\ ws'[c].pc = "select_session"
                              /\ ws'[c].user = token.sub
                         ELSE ws'[c].pc = "closed"
             /\ (ws[c].pc = "select_session" /\ ws'[c].pc # "select_session")
                => IF /\ ws[c].sid \in DOMAIN chat_sessions
                      /\ MayJoin(chat_sessions[ws[c].sid], ws[c].user)
                   THEN ws'[c].pc \in {"commit", "accept"}
                   ELSE ws'[c].pc = "closed"]_vars

\* A socket has been accepted and registered while an earlier attempt, by a
\* user who may not join, stays closed and unregistered.
C18_Witness ==
    \E c, d \in Conns :
        /\ ws[c].pc = "closed"
        /\ ws[c].close.reason = "Not a participant or session is full"
        /\ ws[d].pc = "open"
        /\ active_connections[ws[d].user] = d
        /\ active_connections[ws[c].user] = None

\* ============================ /reports/create, /match/block, /match/unblock
\* The three handlers that write BlockedUser rows, each of which suspends in
\* every database statement.  current_user is the row the request's dependency
\* loaded; the handler's session keeps it, so `blocked_users_count += 1` adds
\* to the value read then.
NumReqs == 3
Reqs == 1..NumReqs

\* stale: the BlockedUser row an unblock loaded has since been deleted by
\* another request.
NewReq ==
    [pc |-> "new", kind |-> "none", user |-> None, target |-> None,
     count |-> 0, has_block |-> FALSE, stale |-> FALSE, status |-> None]

\* The users who send the requests, and the users a request of a may name: a
\* itself and the two users after it.
Requesters == {1}
Targets(a) == {a, (a % NumUsers) + 1, ((a + 1) % NumUsers) + 1}

\* `if target == current_user.id` of block_user and create_report.
is_self_never(a, b) == FALSE

is_self(a, b) == b = a

\* A request of kind k arrives: get_user_from_token loads current_user.
\* Requests are numbered in the order of their arrival.
Arrive(r, k, a, b) ==
    [NewReq EXCEPT !.kind = k, !.user = a, !.target = b,
                   !.count = blocked_users_count[a]]

\* create_report up to its first statement: a report of oneself is answered
\* 400, else the target is looked up (users are never deleted, so it is
\* found) and the SELECT of the existing block is issued.
CreateReportStart(r, a, b) ==
    /\ req[r].pc = "new"
    /\ \A q \in 1..(r - 1) : req[q].pc # "new"
    /\ req' = [req EXCEPT ![r] =
                 IF is_self(a, b)
                 THEN [Arrive(r, "report", a, b) EXCEPT !.pc = "done",
                                                        !.status = 400]
                 ELSE [Arrive(r, "report", a, b) EXCEPT !.pc = "select_block"]]
    /\ UNCHANGED <<extVars, matchVars, notifVars, dbVars, wsVars>>

\* existing_block.scalar_one_or_none(): with more than one row it raises
\* (500); else the block and the count are staged and commit is awaited.
CreateReportSelectBlock(r) ==
    /\ req[r].pc = "select_block"
    /\ req[r].kind = "report"
    /\ LET rows == blocked_users[req[r].user][req[r].target] IN
       req' = [req EXCEPT ![r] =
                 IF rows > 1
                 THEN [@ EXCEPT !.pc = "done", !.status = 500]
                 ELSE [@ EXCEPT !.pc = "commit", !.has_block = (rows = 1)]]
    /\ UNCHANGED <<extVars, matchVars, notifVars, dbVars, wsVars>>

\* await session.commit(): the Report row, and with no existing block the
\* BlockedUser row and the UPDATE of blocked_users_count.
CreateReportCommit(r) ==
    /\ req[r].pc = "commit"
    /\ req[r].kind = "report"
    /\ LET a == req[r].user
           b == req[r].target
       IN /\ reports' = [reports EXCEPT ![a][b] = @ + 1]
          /\ IF req[r].has_block
             THEN UNCHANGED <<blocked_users, blocked_users_count>>
             ELSE /\ blocked_users' = [blocked_users EXCEPT ![a][b] = @ + 1]
                  /\ blocked_users_count' =
                        [blocked_users_count EXCEPT ![a] = req[r].count + 1]
    /\ req' = [req EXCEPT ![r].pc = "done", ![r].status = 201]
    /\ UNCHANGED <<extVars, matchVars, notifVars, chat_sessions, is_banned, reports_count, wsVars>>

\* block_user up to its first statement: blocking oneself is answered 400,
\* else the target is looked up (found) and the SELECT of the existing block
\* is issued.
BlockUserStart(r, a, b) ==
    /\ req[r].pc = "new"
    /\ \A q \in 1..(r - 1) : req[q].pc # "new"
    /\ req' = [req EXCEPT ![r] =
                 IF is_self(a, b)
                 THEN [Arrive(r, "block", a, b) EXCEPT !.pc = "done",
                                                       !.status = 400]
                 ELSE [Arrive(r, "block", a, b) EXCEPT !.pc = "select_block"]]
    /\ UNCHANGED <<extVars, matchVars, notifVars, dbVars, wsVars>>

\* existing.scalar_one_or_none(): more than one row raises (500), one row is
\* answered 400 "Already blocked"; else the row and the count are staged and
\* commit is awaited.
BlockUserSelectBlock(r) ==
    /\ req[r].pc = "select_block"
    /\ req[r].kind = "block"
    /\ LET rows == blocked_users[req[r].user][req[r].target] IN
       req' = [req EXCEPT ![r] =
                 IF rows > 1
                 THEN [@ EXCEPT !.pc = "done", !.status = 500]
                 ELSE IF rows = 1
                 THEN [@ EXCEPT !.pc = "done", !.has_block = TRUE,
                                !.status = 400]
                 ELSE [@ EXCEPT !.pc = "commit"]]
    /\ UNCHANGED <<extVars, matchVars, notifVars, dbVars, wsVars>>

\* await session.commit() of block_user: the INSERT and the UPDATE of
\* blocked_users_count.
BlockUserCommit(r) ==
    /\ req[r].pc = "commit"
    /\ req[r].kind = "block"
    /\ LET a == req[r].user
           b == req[r].target
       IN /\ blocked_users' = [blocked_users EXCEPT ![a][b] = @ + 1]
          /\ blocked_users_count' =
                [blocked_users_count EXCEPT ![a] = req[r].count + 1]
    /\ req' = [req EXCEPT ![r].pc = "done", ![r].status = 200]
    /\ UNCHANGED <<extVars, matchVars, notifVars, chat_sessions, reports, is_banned,
                   reports_count, wsVars>>

\* unblock_user up to its first statement, the SELECT of the block row (it
\* has no check of the target).
UnblockUserStart(r, a, b) ==
    /\ req[r].pc = "new"
    /\ \A q \in 1..(r - 1) : req[q].pc # "new"
    /\ req' = [req EXCEPT ![r] =
                 [Arrive(r, "unblock", a, b) EXCEPT !.pc = "select_block"]]
    /\ UNCHANGED <<extVars, matchVars, notifVars, dbVars, wsVars>>

\* blocked.scalar_one_or_none(): more than one row raises (500), none is
\* answered 404 "User not blocked"; else the delete and the count are staged
\* and commit is awaited.
UnblockUserSelectBlock(r) ==
    /\ req[r].pc = "select_block"
    /\ req[r].kind = "unblock"
    /\ LET rows == blocked_users[req[r].user][req[r].target] IN
       req' = [req EXCEPT ![r] =
                 IF rows > 1
                 THEN [@ EXCEPT !.pc = "done", !.status = 500]
                 ELSE IF rows = 0
                 THEN [@ EXCEPT !.pc = "done", !.status = 404]
                 ELSE [@ EXCEPT !.pc = "commit", !.has_block = TRUE]]
    /\ UNCHANGED <<extVars, matchVars, notifVars, dbVars, wsVars>>

\* The requests that loaded the same row as r and have not yet deleted it.
SameRow(r) ==
    { q \in Reqs \ {r} : /\ req[q].pc = "commit"
                         /\ req[q].kind = "unblock"
                         /\ req[q].user = req[r].user
                         /\ req[q].target = req[r].target
                         /\ ~req[q].stale }

\* await session.commit() of unblock_user: the DELETE of the loaded row (which
\* matches nothing when another request has deleted that row) and the UPDATE
\* of blocked_users_count to max(0, count - 1).
UnblockUserCommit(r) ==
    /\ req[r].pc = "commit"
    /\ req[r].kind = "unblock"
    /\ LET a == req[r].user
           b == req[r].target
       IN /\ blocked_users' =
                IF req[r].stale THEN blocked_users
                ELSE [blocked_users EXCEPT ![a][b] = @ - 1]
          /\ blocked_users_count' =
                [blocked_users_count EXCEPT ![a] =
                    IF req[r].count - 1 > 0 THEN req[r].count - 1 ELSE 0]
    /\ req' = [q \in Reqs |->
                 IF q = r THEN [req[r] EXCEPT !.pc = "done", !.status = 200]
                 ELSE IF ~req[r].stale /\ q \in SameRow(r)
                 THEN [req[q] EXCEPT !.stale = TRUE]
                 ELSE req[q]]
    /\ UNCHANGED <<extVars, matchVars, notifVars, chat_sessions, reports, is_banned,
                   reports_count, wsVars>>

\* Nothing stored, or the block row of an earlier request of user 1 against 2.
InitReport ==
    /\ InitCommon
    /\ chat_sessions = <<>>
    /\ is_banned = [u \in Users |-> FALSE]
    /\ reports_count = [u \in Users |-> 0]
    /\ ws = <<>>
    /\ req = [r \in Reqs |-> NewReq]
    /\ blocked_users \in { NoBlocks, [NoBlocks EXCEPT ![1][2] = 1] }
    /\ blocked_users_count = RowCounts(blocked_users)

NextReport ==
    \/ \E r \in Reqs : \E a \in Requesters : \E b \in Targets(a) : CreateReportStart(r, a, b)
    \/ \E r \in Reqs : CreateReportSelectBlock(r)
    \/ \E r \in Reqs : CreateReportCommit(r)
    \/ \E r \in Reqs : \E a \in Requesters : \E b \in Targets(a) : BlockUserStart(r, a, b)
    \/ \E r \in Reqs : BlockUserSelectBlock(r)
    \/ \E r \in Reqs : BlockUserCommit(r)
    \/ \E r \in Reqs : \E a \in Requesters : \E b \in Targets(a) : UnblockUserStart(r, a, b)
    \/ \E r \in Reqs : UnblockUserSelectBlock(r)
    \/ \E r \in Reqs : UnblockUserCommit(r)

SpecReport == InitReport /\ [][NextReport]_vars

\* ====================================================== claims: reports
\* C10: when a create-report of A against B succeeds, exactly one BlockedUser
\* row (A, B) exists; if there was none, A's blocked_users_count has grown by
\* one; if there was one, the call adds a Report row but no BlockedUser row and
\* leaves the count as it was.
C10_ReportBlocksOnce ==
    [][\A r \in Reqs : CreateReportCommit(r) =>
          LET a == req[r].user
              b == req[r].target
          IN /\ blocked_users'[a][b] = 1
             /\ reports'[a][b] = reports[a][b] + 1
             /\ blocked_users[a][b] = 0 =>
                    blocked_users_count'[a] = blocked_users_count[a] + 1
             /\ blocked_users[a][b] >= 1 =>
                    UNCHANGED <<blocked_users, blocked_users_count>>]_vars

\* The Report rows that name u as the reported user.
ReportsReceived(u) == SeqSum([a \in Users |-> reports[a][u]])

\* C32: each user's reports_count equals the number of Report rows that name
\* that user as the reported user.
C32_ReportsCounted == \A u \in Users : reports_count[u] = ReportsReceived(u)

\* ======================================================= claims: blocks
\* C11: whatever block, unblock and create-report requests are made and however
\* they interleave, there is at most one BlockedUser row per ordered pair
\* (blocker, blocked), and a block request whose target is already blocked is
\* answered 400 and adds no row.
C11_OneRowPerPair ==
    /\ [](\A a, b \in Users : blocked_users[a][b] <= 1)
    /\ [][\A r \in Reqs :
             (/\ BlockUserSelectBlock(r)
              /\ blocked_users[req[r].user][req[r].target] >= 1)
             => /\ req'[r].pc = "done"
                /\ req'[r].status = 400
                /\ blocked_users' = blocked_users]_vars

\* The requests of u that have arrived and are not yet answered.
InFlight(u) == { r \in Reqs : req[r].user = u /\ req[r].pc # "done" }

\* C12: once the block, unblock and create-report requests of a user are
\* answered, the user's blocked_users_count is the number of BlockedUser rows
\* whose blocker is that user.
C12_CountEqualsRows ==
    \A u \in Users :
        InFlight(u) = {} => blocked_users_count[u] = SeqSum(blocked_users[u])

\* C13: a block of oneself and a report of oneself are both answered 400, no
\* BlockedUser or Report row of a user against that user is ever stored, and
\* the request changes no row and no counter.
C13_SelfRejected ==
    /\ [](/\ \A a \in Users : blocked_users[a][a] = 0 /\ reports[a][a] = 0
          /\ \A r \in Reqs :
                (req[r].kind \in {"block", "report"}
                    /\ req[r].target = req[r].user)
                => req[r].pc = "done" /\ req[r].status = 400)
    /\ [][\A r \in Reqs : \A a \in Requesters :
             (BlockUserStart(r, a, a) \/ CreateReportStart(r, a, a))
             => /\ req'[r].status = 400
                /\ UNCHANGED <<blocked_users, reports, blocked_users_count>>]_vars

\* A block of oneself and a report of oneself have both been answered 400
\* while the user has a block row against somebody else.
C13_Witness ==
    \E r, q \in Reqs :
        /\ req[r].kind = "block" /\ req[r].target = req[r].user
        /\ req[r].status = 400
        /\ req[q].kind = "report" /\ req[q].target = req[q].user
        /\ req[q].status = 400
        /\ blocked_users_count[req[r].user] = 1
        /\ SeqSum(blocked_users[req[r].user]) = 1

\* ============================================== the queue on both backends
\* add_to_queue, remove_from_queue and get_queue_position called directly, and
\* the endpoints /match/cancel and /match/queue-status that are those calls,
\* with the queue in the Redis sorted set or in in_memory_cache.  On Redis every
\* command is awaited, so remove_from_queue suspends between its ZRANGE and its
\* ZREM.  A Redis command that raises is not followed here.
MaxQueue == 3

\* The users who call, and what they pass as preferences.
QueueCallers == {1, 2}

\* The order of the texts of two preferences dicts: '{"' sorts before '{}'.
PrefRank(p) == IF p = NoPrefs THEN 1 ELSE 0

\* The order of two members' JSON texts, which begin with the user id, the
\* joined_at and the preferences, in that order.
TextLeq(a, b) ==
    \/ a.user_id < b.user_id
    \/ a.user_id = b.user_id /\ a.joined_at < b.joined_at
    \/ a.user_id = b.user_id /\ a.joined_at = b.joined_at
          /\ PrefRank(a.preferences) <= PrefRank(b.preferences)

\* A sorted set orders by score and, for equal scores, by the member's text.
ZLeq(x, y) ==
    \/ x.score < y.score
    \/ x.score = y.score /\ TextLeq(x.member, y.member)

\* ZADD key {member: score}: a member that is in the set gets the new score.
zadd(z, member, score) ==
    { x \in z : x.member # member } \cup {[member |-> member, score |-> score]}

\* ZRANGE key 0 -1: the members in the set's order.
RECURSIVE zrange(_)
zrange(z) ==
    IF z = {} THEN <<>>
    ELSE LET first == CHOOSE x \in z : \A y \in z : ZLeq(x, y)
         IN <<first.member>> \o zrange(z \ {first})

\* ZREM key member.
zrem(z, member) == { x \in z : x.member # member }

\* The loops of remove_from_queue and get_queue_position over the members: the
\* index of the first member of the user, 0 if there is none.
FirstOf(members, u) ==
    IF \E i \in DOMAIN members : members[i].user_id = u
    THEN CHOOSE i \in DOMAIN members :
            /\ members[i].user_id = u
            /\ \A j \in 1..(i - 1) : members[j].user_id # u
    ELSE 0

\* The entries of the queue in its order, whichever backend holds it.
QueueEntries(r, q) == IF r.client THEN zrange(r.match_queue) ELSE q

\* get_queue_position on the backend in use.
QueuePosition(r, q, u) == FirstOf(QueueEntries(r, q), u) - 1

IdleQueueCall == [pc |-> "idle", member |-> None]

\* add_to_queue(user_id, preferences), called directly.
AddToQueue(u, p) ==
    /\ req[u].pc = "idle"
    /\ Len(QueueEntries(redis, queue)) < MaxQueue
    /\ IF redis.client
       THEN /\ redis' = [redis EXCEPT !.match_queue =
                            zadd(@, Entry(u, now, p), now)]
            /\ queue' = queue
       ELSE /\ queue' = add_to_queue(queue, u, now, p)
            /\ redis' = redis
    /\ resp' = Response(u, "added", None, None, -1)
    /\ UNCHANGED <<messages, rate_limits, sent, ret, now, call, notifVars,
                   dbVars, req, wsVars>>

\* POST /match/cancel: remove_from_queue up to its return or, on Redis with a
\* member of the caller in the ZRANGE reply, up to the ZREM it awaits.
CancelMatchmaking(u) ==
    /\ req[u].pc = "idle"
    /\ IF redis.client
       THEN LET members == zrange(redis.match_queue)
                i == FirstOf(members, u)
            IN IF i = 0
               THEN /\ req' = req
                    /\ resp' = Response(u, "canceled", None, None, -1)
               ELSE /\ req' = [req EXCEPT ![u] = [pc |-> "zrem",
                                                  member |-> members[i]]]
                    /\ resp' = NoResp
       ELSE /\ req' = req
            /\ resp' = Response(u, "canceled", None, None, -1)
    /\ queue' = IF redis.client THEN queue ELSE remove_from_queue(queue, u)
    /\ UNCHANGED <<extVars, now, call, notifVars, dbVars, wsVars>>

\* The ZREM of the member found, `break`, and the endpoint's response.
CancelZrem(u) ==
    /\ req[u].pc = "zrem"
    /\ redis' = [redis EXCEPT !.match_queue = zrem(@, req[u].member)]
    /\ req' = [req EXCEPT ![u] = IdleQueueCall]
    /\ resp' = Response(u, "canceled", None, None, -1)
    /\ UNCHANGED <<messages, rate_limits, sent, ret, queue, now, call, notifVars,
                   dbVars, wsVars>>

\* GET /match/queue-status: 404 for a position below 0, else the position.
QueueStatus(u) ==
    /\ req[u].pc = "idle"
    /\ LET pos == QueuePosition(redis, queue, u) IN
       resp' = IF pos < 0 THEN Response(u, "error404", None, None, -1)
               ELSE Response(u, "position", None, None, pos)
    /\ UNCHANGED <<extVars, queue, now, call, notifVars, dbVars, req, wsVars>>

\* An empty queue; Redis is connected or it is not.
InitQueue ==
    /\ queue = <<>>
    /\ now = 0
    /\ call = [u \in Users |-> IdleCall]
    /\ resp = NoResp
    /\ user_notifications = [u \in Users |-> <<>>]
    /\ posted = <<>>
    /\ delivered = <<>>
    /\ reports = NoBlocks
    /\ blocked_users = NoBlocks
    /\ blocked_users_count = RowCounts(blocked_users)
    /\ is_banned = [u \in Users |-> FALSE]
    /\ reports_count = [u \in Users |-> 0]
    /\ chat_sessions = <<>>
    /\ ws = <<>>
    /\ active_connections = [u \in Users |-> None]
    /\ session_connections = <<>>
    /\ req = [u \in QueueCallers |-> IdleQueueCall]
    /\ messages = {}
    /\ rate_limits = <<>>
    /\ redis \in { [NoRedis EXCEPT !.client = b] : b \in BOOLEAN }
    /\ sent = {}
    /\ ret = None

NextQueue ==
    \/ Tick
    \/ \E u \in QueueCallers : \E p \in PrefSet : AddToQueue(u, p)
    \/ \E u \in QueueCallers : CancelMatchmaking(u)
    \/ \E u \in QueueCallers : CancelZrem(u)
    \/ \E u \in QueueCallers : QueueStatus(u)

SpecQueue == InitQueue /\ [][NextQueue]_vars

\* ====================================================== claims: the queue
\* The entries of other users than u, in the queue's order.
OthersOf(entries, u) == SelectSeq(entries, LAMBDA e : e.user_id # u)

\* The number of entries of user u.
EntriesOf(entries, u) == Len(SelectSeq(entries, LAMBDA e : e.user_id = u))

\* C21: cancel removes the caller's queue entry if there is one and succeeds
\* if there is none; after it the caller's position is -1 (queue-status
\* answers not-found), a second cancel changes nothing, and the entries of the
\* other users and their order are as before.
C21_CancelRemoves ==
    [][\A u \in QueueCallers :
          /\ (CancelMatchmaking(u) \/ CancelZrem(u))
             => OthersOf(QueueEntries(redis', queue'), u)
                    = OthersOf(QueueEntries(redis, queue), u)
          /\ ((CancelMatchmaking(u) \/ CancelZrem(u)) /\ resp'.status = "canceled")
             => /\ resp'.to = u
                /\ QueuePosition(redis', queue', u) = -1
          /\ (CancelMatchmaking(u) /\ QueuePosition(redis, queue, u) = -1)
             => /\ resp'.status = "canceled"
                /\ UNCHANGED <<queue, redis>>]_vars

\* C22: on both backends the queue holds at most one entry per user id;
\* add_to_queue of a queued user replaces the user's entry, and one
\* remove_from_queue after it leaves the user absent.
C22_OneEntryPerUser ==
    /\ [](\A u \in QueueCallers : EntriesOf(QueueEntries(redis, queue), u) <= 1)
    /\ [][\A u \in QueueCallers : \A p \in PrefSet :
            AddToQueue(u, p) =>
               LET after == QueueEntries(redis', queue')
               IN /\ EntriesOf(after, u) = 1
                  /\ after[FirstOf(after, u)] = Entry(u, now, p)
                  /\ OthersOf(after, u) = OthersOf(QueueEntries(redis, queue), u)]_vars
    /\ [][\A u \in QueueCallers :
            ((CancelMatchmaking(u) \/ CancelZrem(u)) /\ resp'.status = "canceled")
               => EntriesOf(QueueEntries(redis', queue'), u) = 0]_vars

\* ====================================================== the message loop
\* The message loop of websocket_endpoint with every await it makes: the commit
\* and the refresh of a Message, the SELECT and the commit of end_session, and
\* each send_json of a broadcast.  broadcast_to_session iterates the manager's
\* own set of the session, so the other sockets run between two sends, and the
\* set's iterator raises RuntimeError when it finds the set's size changed.

MaxChatMessages == 1

\* Who opens each socket, and on which session: user 1 and user 2 on session 1,
\* then a second socket of user 1, user 3 on either session, or user 2 on
\* session 2.
ChatOpeners(c) ==
    CASE c = 1 -> {<<1, 1>>}
      [] c = 2 -> {<<2, 1>>}
      [] c = 3 -> {<<1, 1>>, <<3, 1>>, <<3, 2>>, <<2, 2>>}
      [] OTHER -> {}

\* The frames a client sends, and the reasons an end_session frame carries
\* ("None": no reason key).
ChatTypes == {"message", "chat_message"}
SignalTypes == {"signal", "offer", "answer", "candidate"}
FrameTypes == ChatTypes \cup SignalTypes \cup {"end_session"}
Reasons == {"None", "bye"}

\* The frames that arrive on each socket: user 2's socket carries the traffic,
\* user 1's first socket sends offers and chat messages.
FramesOn(c) ==
    IF c = 2 THEN FrameTypes
    ELSE IF c = 1 THEN {"offer", "chat_message"}
    ELSE {}

\* The branch of the loop a frame type takes.
Branch(type) ==
    IF type \in ChatTypes THEN "chat_message"
    ELSE IF type \in SignalTypes THEN "webrtc_signal"
    ELSE type

\* The endpoint of the socket is running its loop: the socket is open.
LoopPcs ==
    {"open", "msg_commit", "msg_refresh", "end_select", "end_commit", "broadcast"}
Alive(d) == ws[d].pc \in LoopPcs

\* The users with a live socket on session s.
Present(s) == { ws[d].user : d \in { e \in DOMAIN ws : Alive(e) /\ ws[e].sid = s } }

\* A broadcast_to_session(session_id, {"type": event, ...}, exclude_user) call
\* that has not reached its `for` yet.
Broadcast(event, exclude_user) ==
    [NoBroadcast EXCEPT !.event = event, !.exclude = exclude_user]

\* receive_text() returns a frame and the loop branches on its type: a chat
\* frame goes to the commit of its Message, a signalling frame to its
\* broadcast, end_session to its SELECT.
ReceiveFrame(c, type, reason) ==
    /\ ws[c].pc = "open"
    /\ Branch(type) = "chat_message" => Cardinality(messages) < MaxChatMessages
    /\ Branch(type) = "end_session" \/ reason = "None"
    /\ ws' = [ws EXCEPT
                ![c].frame = [type |-> Branch(type), reason |-> reason],
                ![c].pc = CASE Branch(type) = "chat_message" -> "msg_commit"
                            [] Branch(type) = "webrtc_signal" -> "broadcast"
                            [] OTHER -> "end_select",
                ![c].bc = IF Branch(type) = "webrtc_signal"
                          THEN Broadcast("webrtc_signal", ws[c].user)
                          ELSE NoBroadcast]
    /\ sent' = {}
    /\ UNCHANGED <<messages, rate_limits, redis, ret, matchVars, notifVars, dbVars,
                   req, active_connections, session_connections>>

\* await msg_session.commit(): the Message row of the socket's session and
\* user is in the table.
MsgCommit(c) ==
    /\ ws[c].pc = "msg_commit"
    /\ messages' = messages \cup
          {Message(Cardinality(messages) + 1, ws[c].sid, ws[c].user, now)}
    /\ ws' = [ws EXCEPT ![c].pc = "msg_refresh"]
    /\ sent' = {}
    /\ UNCHANGED <<rate_limits, redis, ret, matchVars, notifVars, dbVars, req,
                   active_connections, session_connections>>

\* await msg_session.refresh(new_message) is back: the chat_message broadcast,
\* which excludes nobody, is called.
MsgRefresh(c) ==
    /\ ws[c].pc = "msg_refresh"
    /\ ws' = [ws EXCEPT ![c].pc = "broadcast",
                        ![c].bc = Broadcast("chat_message", None)]
    /\ sent' = {}
    /\ UNCHANGED <<messages, rate_limits, redis, ret, matchVars, notifVars, dbVars,
                   req, active_connections, session_connections>>

\* The SELECT of end_session is back (sessions are never deleted): status is
\* set on the row loaded and commit is awaited.
EndSelect(c) ==
    /\ ws[c].pc = "end_select"
    /\ ws' = [ws EXCEPT ![c].pc = "end_commit"]
    /\ sent' = {}
    /\ UNCHANGED <<messages, rate_limits, redis, ret, matchVars, notifVars, dbVars,
                   req, active_connections, session_connections>>

\* The commit of end_session is done; the session_ended broadcast is called.
EndCommit(c) ==
    /\ ws[c].pc = "end_commit"
    /\ ws[c].frame.type = "end_session"
    /\ chat_sessions' = [chat_sessions EXCEPT ![ws[c].sid].status = "ended"]
    /\ ws' = [ws EXCEPT ![c].pc = "broadcast",
                        ![c].bc = Broadcast("session_ended", None)]
    /\ sent' = {}
    /\ UNCHANGED <<messages, rate_limits, redis, ret, matchVars, notifVars,
                   blocked_users, reports, blocked_users_count, is_banned, reports_count, req,
                   active_connections, session_connections>>

\* The set the broadcast of socket c iterates, as it is now.
BroadcastSet(c) ==
    IF ws[c].bc.orphan \/ ws[c].sid \notin DOMAIN session_connections THEN {}
    ELSE session_connections[ws[c].sid]

\* One frame of a broadcast as it arrives.
Frame(v, d, event, sender, reason) ==
    [to |-> v, socket |-> d, type |-> event, user_id |-> sender, reason |-> reason]

\* The loop of the broadcast passes the members K without a send (they are
\* exclude_user or have no handle) and awaits send_json on the handle of v; a
\* send on a socket whose endpoint has returned raises and is logged.
BroadcastSend(c, b, K, v) ==
    LET d == active_connections[v]
        arrives == Alive(d)
    IN /\ ws' = [ws EXCEPT ![c].bc =
                    [b EXCEPT !.visited = @ \cup K \cup {v},
                              !.got = IF arrives
                                      THEN @ \cup {[to |-> v, socket |-> d]}
                                      ELSE @]]
       /\ sent' = IF arrives
                  THEN {Frame(v, d, b.event, ws[c].user, ws[c].frame.reason)}
                  ELSE {}
       /\ UNCHANGED <<active_connections, session_connections>>

\* The broadcast returns; after session_ended the loop is left with `break`
\* and the endpoint returns, else the loop awaits the next frame.
BroadcastReturn(c) ==
    /\ ws' = [ws EXCEPT ![c].pc = IF ws[c].bc.event = "session_ended"
                                  THEN "ended" ELSE "open",
                        ![c].bc = NoBroadcast, ![c].frame = NoFrame]
    /\ sent' = {}
    /\ UNCHANGED <<active_connections, session_connections>>

\* "Set changed size during iteration": the RuntimeError leaves the broadcast
\* and the loop for `except Exception`, which unregisters the user and closes
\* the socket with 1011.
BroadcastRaise(c) ==
    /\ active_connections' = [active_connections EXCEPT ![ws[c].user] = None]
    /\ session_connections' = disconnect(session_connections, ws[c].user, ws[c].sid)
    /\ ws' = Orphan([ws EXCEPT ![c].pc = "failed",
                               ![c].close = [code |-> WS_1011_SERVER_ERROR,
                                             reason |-> "error"],
                               ![c].bc = NoBroadcast, ![c].frame = NoFrame],
                    session_connections, session_connections')
    /\ sent' = {}

\* broadcast_to_session from where it is (its call, or the return of a send)
\* to its next send_json, its return or its RuntimeError.  The iterator yields
\* the members in the order of the set's hash table, which is any order; a
\* member added since the loop began may lie behind the iterator and be missed.
BroadcastStep(c) ==
    /\ ws[c].pc = "broadcast"
    /\ LET b == ws[c].bc
           set == BroadcastSet(c)
       IN IF b.size < 0 /\ ws[c].sid \notin DOMAIN session_connections
          THEN BroadcastReturn(c)
          ELSE IF b.size >= 0 /\ Cardinality(set) # b.size
          THEN BroadcastRaise(c)
          ELSE LET b1 == IF b.size >= 0 THEN b
                         ELSE [b EXCEPT !.size = Cardinality(set), !.members = set,
                                        !.present = Present(ws[c].sid)]
                   rest == set \ b1.visited
                   passed == { x \in rest :
                                 x = b1.exclude \/ active_connections[x] = None }
               IN \/ \E K \in SUBSET passed : \E v \in rest \ passed :
                        BroadcastSend(c, b1, K, v)
                  \/ /\ (rest \ passed) \subseteq (set \ b1.members)
                     /\ BroadcastReturn(c)
    /\ UNCHANGED <<messages, rate_limits, redis, ret, matchVars, notifVars, dbVars,
                   req>>

\* Two stored sessions: user 1's, its second slot empty, and the session of
\* users 2 and 3.  No socket yet.
InitChat ==
    /\ InitCommon
    /\ blocked_users = NoBlocks
    /\ blocked_users_count = RowCounts(blocked_users)
    /\ req = <<>>
    /\ chat_sessions = <<ActiveSession(1, None), ActiveSession(2, 3)>>
    /\ is_banned = [u \in Users |-> FALSE]
    /\ reports_count = [u \in Users |-> 0]
    /\ ws = [c \in Conns |-> NewConn]

\* The sockets are opened with access tokens the server has issued.
NextChat ==
    \/ \E c \in Conns : \E o \in ChatOpeners(c) :
          WsOpen(c, create_access_token(o[1], now), o[2])
    \/ \E c \in Conns : WsSelectSession(c)
    \/ \E c \in Conns : WsCommit(c)
    \/ \E c \in Conns : WsAccept(c)
    \/ \E c \in Conns : WsDisconnect(c)
    \/ \E c \in Conns : WsError(c)
    \/ \E c \in Conns : \E type \in FramesOn(c) : \E reason \in Reasons :
          ReceiveFrame(c, type, reason)
    \/ \E c \in Conns : MsgCommit(c)
    \/ \E c \in Conns : MsgRefresh(c)
    \/ \E c \in Conns : EndSelect(c)
    \/ \E c \in Conns : EndCommit(c)
    \/ \E c \in Conns : BroadcastStep(c)

SpecChat == InitChat /\ [][NextChat]_vars

Returns(c) == ws[c].pc = "broadcast" /\ ws'[c].pc \in {"open", "ended"}

\* The users the sends of c's broadcast have reached.
Reached(c) == { g.to : g \in ws[c].bc.got }

\* The users who have had a live socket on the session of c's broadcast from
\* its start until now.
Staying(c) == ws[c].bc.present \cap Present(ws[c].sid)

\* C27: an offer, answer or candidate frame is delivered as webrtc_signal to
\* every other user connected to the session, never to the sender and never to
\* a user connected only to another session; a chat_message frame is delivered
\* as chat_message to every user connected to the session, the sender
\* included.
C27_Relay ==
    [][\A c \in Conns :
          (Returns(c) /\ ws[c].bc.event \in {"webrtc_signal", "chat_message"})
          => /\ ws[c].bc.event = "webrtc_signal" =>
                   /\ ws[c].user \notin Reached(c)
                   /\ Staying(c) \ {ws[c].user} \subseteq Reached(c)
             /\ ws[c].bc.event = "chat_message" => Staying(c) \subseteq Reached(c)
             /\ \A g \in ws[c].bc.got : ws[g.socket].sid = ws[c].sid]_vars

\* C28: on an end_session frame the ChatSession's status becomes "ended", then
\* session_ended with the caller's reason is broadcast to the users connected
\* to the session, and the connection's loop handles no further frame.
C28_EndSession ==
    [][\A c \in Conns :
          /\ ws[c].pc \in {"ended", "failed"} => ws'[c] = ws[c]
          /\ (ws[c].pc = "broadcast" /\ ws[c].bc.event = "session_ended"
                /\ ws'[c] # ws[c])
             => /\ chat_sessions[ws[c].sid].status = "ended"
                /\ \A f \in sent' : /\ f.type = "session_ended"
                                    /\ f.reason = ws[c].frame.reason
                /\ ws'[c].pc \in {"broadcast", "ended", "failed"}
                /\ ws'[c].pc \in {"ended", "failed"}
                      => Staying(c) \subseteq Reached(c)]_vars

\* C33: a ChatSession's status only moves from "active" to "ended": no step
\* sets an ended session back to "active", no row is removed, and user_id_1
\* never changes after creation.
C33_StatusMonotone ==
    [][\A s \in DOMAIN chat_sessions :
          /\ s \in DOMAIN chat_sessions'
          /\ chat_sessions'[s].user_id_1 = chat_sessions[s].user_id_1
          /\ chat_sessions'[s].status \in {"active", "ended"}
          /\ chat_sessions[s].status = "ended"
                => chat_sessions'[s].status = "ended"]_vars

\* Session 1 was ended by user 2, and the socket of user 3, who took the
\* second slot, has just been accepted on it.
C33_Witness ==
    /\ chat_sessions[1].status = "ended"
    /\ ws[2].pc = "ended"
    /\ chat_sessions[1].user_id_2 = 3
    /\ ws[3].pc = "open" /\ ws[3].sid = 1
    /\ \E f \in sent : f.type = "stun_turn_servers" /\ f.socket = 3

\* C34: once a ChatSession's status is "ended", no further Message row is
\* persisted for that session.
C34_NoMessageAfterEnd ==
    [][\A m \in messages' \ messages :
          chat_sessions[m.chat_session_id].status # "ended"]_vars

\* C35: every user id in a session's connected set has a handle in the
\* user-to-handle map, and that handle is the socket of a connection of that
\* user that is still open for that session.
C35_SetMembersHaveHandles ==
    \A s \in DOMAIN session_connections : \A u \in session_connections[s] :
        /\ active_connections[u] # None
        /\ Alive(active_connections[u])
        /\ ws[active_connections[u]].user = u
        /\ ws[active_connections[u]].sid = s

\* C29: no session id maps to an empty set of connected users: connect leaves
\* the user in the session's set, disconnect takes the user out and drops the
\* key with the last user, whatever the status of the ChatSession.
C29_NoEmptySessionSet ==
    /\ [](\A s \in DOMAIN session_connections : session_connections[s] # {})
    /\ [][\A c \in Conns :
            LET u == ws[c].user
                s == ws[c].sid
            IN /\ (ws[c].pc = "accept" /\ ws'[c].pc = "open")
                  => /\ s \in DOMAIN session_connections'
                     /\ u \in session_connections'[s]
               /\ (Alive(c) /\ ws'[c].pc \in {"disconnected", "failed"})
                  => IF s \in DOMAIN session_connections
                        /\ session_connections[s] \ {u} # {}
                     THEN /\ s \in DOMAIN session_connections'
                          /\ session_connections'[s] = session_connections[s] \ {u}
                     ELSE s \notin DOMAIN session_connections']_vars

\* The key of the active session 2 was dropped with its last user, while the
\* ended session 1 still has its key.
C29_Witness ==
    /\ chat_sessions[1].status = "ended"
    /\ 1 \in DOMAIN session_connections
    /\ chat_sessions[2].status = "active"
    /\ 2 \notin DOMAIN session_connections
    /\ \E c \in Conns : ws[c].pc = "disconnected" /\ ws[c].sid = 2

\* C30: a failed delivery to one recipient, a recipient that disconnects and
\* a member set that changes while the broadcast is suspended in a send neither
\* keep the frame from the other connected members nor end the broadcasting
\* connection's loop.
C30_BroadcastSurvives ==
    [][\A c \in Conns :
          ws[c].pc = "broadcast"
          => /\ ws'[c].pc # "failed"
             /\ ws'[c].pc = "broadcast" =>
                  \A v \in ws'[c].bc.visited \ ws[c].bc.visited :
                     (v # ws[c].bc.exclude /\ active_connections[v] # None
                        /\ Alive(active_connections[v]))
                     => v \in { g.to : g \in ws'[c].bc.got }
             /\ Returns(c) =>
                  \A x \in BroadcastSet(c) \cap ws[c].bc.members :
                     \/ x \in ws[c].bc.visited
                     \/ x = ws[c].bc.exclude
                     \/ active_connections[x] = None]_vars
====
